---- MODULE Spec2Model ----
(***************************************************************************)
(* Verification model of the produce quality-grading repository:           *)
(*   - src/ml/server.py: the Flask inference server (Spec, SpecLoad);      *)
(*   - prepare_data.py: the train/val/test split (SpecSplit);              *)
(*   - train.py: the class weights (SpecWeights);                          *)
(*   - bias_test.py: the bias tests (SpecAccuracy, SpecReject);            *)
(*   - evaluate.py: the test generator and the confusion matrix            *)
(*     (SpecEvaluate);                                                     *)
(*   - train.py then evaluate.py over models/quality_grading (SpecHandOff);*)
(*   - prepare_data.py: main over the four datasets, and the crop names    *)
(*     evaluate.py and bias_test.py read back (SpecPrepare).               *)
(* Text (file names, model versions) is a sequence of character codes, so  *)
(* that ordering, globbing and Path.stem are computed, not assumed.        *)
(***************************************************************************)
EXTENDS Integers, Sequences, FiniteSets, TLC

VARIABLES
    \* ---- server.py ----
    pc,              \* "import" | "serving" | "crashed": position of the server process
    url_map,         \* app.url_map: the rules registered by @app.route
    env_MODEL_PATH,  \* os.environ.get('MODEL_PATH', '')
    fs_paths,        \* paths outside the models directory that exist
    model_dir,       \* names of the files in models/quality_grading
    model,           \* global `model`: None, or the path/name of the loaded file
    model_version,   \* global `model_version`
    request,         \* the last request received
    response,        \* the response to it; invoked and output record the call of
                     \* model.predict made while handling it (history)
    startup,         \* the environment as load_model saw it (history)
    versions_seen,   \* modelVersion of every successful /predict response (history)
    \* ---- prepare_data.py ----
    split_pc,        \* "idle" | "ready" | "returned"
    src_files,       \* the list handed to copy_images_with_split
    splits,          \* the splits dict built by copy_images_with_split
    copied,          \* the count copy_images_with_split returned
    out_files,       \* the files under OUTPUT_DIR: [dir, name]
    \* ---- train.py ----
    cw_pc,           \* "idle" | "ready" | "returned" | "raised"
    train_dir,       \* entries of the training directory: name -> [is_dir, entries]
    class_weights,   \* the dict compute_class_weights returned
    \* ---- bias_test.py ----
    bias_pc,         \* "idle" | "ready" | "returned"
    test_set,        \* the test samples: [file_path, true_class, pred_class]
    crop_result,     \* first value returned by the bias test (crop -> rate)
    flags,           \* second value returned by the bias test (list of flags)
    result_line,     \* the "Result:" line the bias test printed, "" when none
    confidences,     \* main: np.max(all_preds, axis=1), one per test sample
    all_flags,       \* main: all_flags
    main_locals,     \* main: crop_acc, reject_rates, grade_fpr, crop_conf
    report,          \* the report generate_report returned, <<>> before
    \* ---- evaluate.py ----
    eval_pc,         \* "idle" | "ready" | "generated" | "predicted" | "returned"
    HAS_SKLEARN,     \* whether the import of sklearn.metrics succeeded
    test_dir,        \* data/unified_quality/test: grade directory -> number of images
    test_gen_classes,  \* test_gen.classes, the true_classes of the evaluation
    predicted_classes,  \* np.argmax(model.predict(test_gen), axis=1)
    cm,              \* the matrix compute_confusion_matrix returned
    \* ---- train.py, then evaluate.py ----
    programs_run,    \* the programs run so far, in order (history)
    now,             \* the clock, in seconds
    quality_grading, \* models/quality_grading: the files [name, st_mtime]
    saved,           \* the model files the training runs saved (history)
    latest,          \* load_latest_model's outcome: [raised, name], name the file loaded
    \* ---- prepare_data.py: main ----
    main_pc,         \* "idle" | "main" | the process_* function running | "done"
    pending,         \* the class directories of the datasets not yet iterated over
    main_total,      \* main's total
    handled,         \* the directories iterated over: [dir, grade, crop, count] (history)
    evaluate_crops,  \* evaluate.py: [name, crop] of the test files it analysed
    bias_crops       \* bias_test.py: [name, crop] of the test files it analysed

serverVars == <<pc, url_map, env_MODEL_PATH, fs_paths, model_dir, model,
                model_version, request, response, startup, versions_seen>>
splitVars == <<split_pc, src_files, splits, copied, out_files>>
weightVars == <<cw_pc, train_dir, class_weights>>
biasVars == <<bias_pc, test_set, crop_result, flags, result_line,
              confidences, all_flags, main_locals, report>>
evalVars == <<eval_pc, HAS_SKLEARN, test_dir, test_gen_classes, predicted_classes, cm>>
handVars == <<programs_run, now, quality_grading, saved, latest>>
prepVars == <<main_pc, pending, main_total, handled, evaluate_crops, bias_crops>>
pipeVars == <<evalVars, handVars, prepVars>>
vars == <<serverVars, splitVars, weightVars, biasVars, pipeVars>>

(***************************************************************************)
(* Text helpers.                                                           *)
(***************************************************************************)
Min2(a, b) == IF a <= b THEN a ELSE b

\* Python's str comparison: lexicographic on code points.
RECURSIVE LexLess(_, _)
LexLess(a, b) ==
    IF b = <<>> THEN FALSE
    ELSE IF a = <<>> THEN TRUE
    ELSE IF Head(a) # Head(b) THEN Head(a) < Head(b)
    ELSE LexLess(Tail(a), Tail(b))

\* str.rfind(ch): the last index (1-based) of ch in s, 0 when absent.
RECURSIVE RFind(_, _, _)
RFind(s, ch, i) ==
    IF i = 0 THEN 0
    ELSE IF s[i] = ch THEN i
    ELSE RFind(s, ch, i - 1)

\* The names and suffixes of the model files, 'unknown', and a MODEL_PATH,
\* "/srv/custom.v2.keras"
Str ==
    [ unknown |-> <<117, 110, 107, 110, 111, 119, 110>>,
      finetuned_model_ |->
          <<102, 105, 110, 101, 116, 117, 110, 101, 100, 95, 109, 111, 100, 101, 108, 95>>,
      best_model_ |-> <<98, 101, 115, 116, 95, 109, 111, 100, 101, 108, 95>>,
      final_model_ |-> <<102, 105, 110, 97, 108, 95, 109, 111, 100, 101, 108, 95>>,
      model |-> <<109, 111, 100, 101, 108>>,
      keras |-> <<46, 107, 101, 114, 97, 115>>,
      h5 |-> <<46, 104, 53>>,
      v9 |-> <<57>>,
      v10 |-> <<49, 48>>,
      v1 |-> <<49>>,
      config_ |-> <<99, 111, 110, 102, 105, 103, 95>>,
      json |-> <<46, 106, 115, 111, 110>>,
      quality_grading_ |->
          <<113, 117, 97, 108, 105, 116, 121, 95, 103, 114, 97, 100, 105, 110, 103, 95>>,
      latest |-> <<108, 97, 116, 101, 115, 116>>,
      tflite |-> <<46, 116, 102, 108, 105, 116, 101>>,
      day |-> <<50, 48, 50, 54, 48, 49, 48, 49, 45, 48>>,
      bias_report_ |-> <<98, 105, 97, 115, 95, 114, 101, 112, 111, 114, 116, 95>>,
      custom_path |->
          <<47, 115, 114, 118, 47, 99, 117, 115, 116, 111, 109, 46, 118, 50, 46, 107, 101, 114, 97, 115>> ]
Chr_dot == Str.keras[1]
Chr_slash == Str.custom_path[1]

\* The file names tried in models/quality_grading.
ModelDirNames ==
    { Str.finetuned_model_ \o Str.v9 \o Str.keras,
      Str.finetuned_model_ \o Str.v10 \o Str.keras,
      Str.finetuned_model_ \o Str.v9 \o Str.h5,
      Str.best_model_ \o Str.v1 \o Str.keras,
      Str.final_model_ \o Str.v1 \o Str.keras,
      Str.model \o Str.keras }

\* The values tried for MODEL_PATH: unset or empty, and one path.
ModelPathValues == { <<>>, Str.custom_path }

(***************************************************************************)
(* Python floats.  A float is an IEEE-754 double: sign s, a 53-bit         *)
(* significand m and an exponent e, of value s * m * 2^e.  Significands     *)
(* exceed TLC's 32-bit integers, so a natural number is a sequence of      *)
(* limbs in base 2^15, least significant first, without leading zeros.     *)
(* Every operation computes the exact result and rounds it to nearest,     *)
(* ties to even, as the hardware does.  Overflow, subnormals, infinities   *)
(* and NaN do not arise for the magnitudes computed here.                  *)
(***************************************************************************)
Limb == 2^15

RECURSIVE BNorm(_)
BNorm(a) ==
    IF a = <<>> THEN <<>>
    ELSE IF a[Len(a)] = 0 THEN BNorm(SubSeq(a, 1, Len(a) - 1))
    ELSE a

RECURSIVE BOfInt(_)
BOfInt(n) == IF n = 0 THEN <<>> ELSE <<n % Limb>> \o BOfInt(n \div Limb)

RECURSIVE BToInt(_)
BToInt(a) == IF a = <<>> THEN 0 ELSE a[1] + Limb * BToInt(Tail(a))

RECURSIVE BAddC(_, _, _)
BAddC(a, b, c) ==
    IF a = <<>> /\ b = <<>> THEN (IF c = 0 THEN <<>> ELSE <<c>>)
    ELSE LET x == IF a = <<>> THEN 0 ELSE a[1]
             y == IF b = <<>> THEN 0 ELSE b[1]
             t == x + y + c
         IN  <<t % Limb>> \o BAddC(IF a = <<>> THEN <<>> ELSE Tail(a),
                                   IF b = <<>> THEN <<>> ELSE Tail(b),
                                   t \div Limb)

BAdd(a, b) == BAddC(a, b, 0)

\* a - b for a >= b
RECURSIVE BSubC(_, _, _)
BSubC(a, b, c) ==
    IF a = <<>> THEN <<>>
    ELSE LET y == IF b = <<>> THEN 0 ELSE b[1]
             t == a[1] - y - c
         IN  <<IF t < 0 THEN t + Limb ELSE t>>
             \o BSubC(Tail(a), IF b = <<>> THEN <<>> ELSE Tail(b), IF t < 0 THEN 1 ELSE 0)

BSub(a, b) == BNorm(BSubC(a, b, 0))

\* -1, 0 or 1 as a < b, a = b or a > b
RECURSIVE BCmpFrom(_, _, _)
BCmpFrom(a, b, i) ==
    IF i = 0 THEN 0
    ELSE IF a[i] < b[i] THEN -1
    ELSE IF a[i] > b[i] THEN 1
    ELSE BCmpFrom(a, b, i - 1)

BCmp(a, b) ==
    IF Len(a) < Len(b) THEN -1
    ELSE IF Len(a) > Len(b) THEN 1
    ELSE BCmpFrom(a, b, Len(a))

\* a * k for 0 <= k <= 2^15
RECURSIVE BMulSmallC(_, _, _)
BMulSmallC(a, k, c) ==
    IF a = <<>> THEN BOfInt(c)
    ELSE LET t == a[1] * k + c
         IN  <<t % Limb>> \o BMulSmallC(Tail(a), k, t \div Limb)

BMulSmall(a, k) == BNorm(BMulSmallC(a, k, 0))

RECURSIVE BMul(_, _)
BMul(a, b) ==
    IF b = <<>> \/ a = <<>> THEN <<>>
    ELSE LET rest == BMul(a, Tail(b))
         IN  BAdd(BMulSmall(a, b[1]), IF rest = <<>> THEN <<>> ELSE <<0>> \o rest)

\* a * 2^n
BShl(a, n) ==
    IF a = <<>> THEN <<>>
    ELSE [i \in 1..(n \div 15) |-> 0] \o BMulSmall(a, 2^(n % 15))

\* a \div 2^n
BShr(a, n) ==
    LET w == n \div 15
        r == n % 15
        b == IF w >= Len(a) THEN <<>> ELSE SubSeq(a, w + 1, Len(a))
    IN  BNorm([i \in 1..Len(b) |->
                  (b[i] \div 2^r)
                  + (IF i < Len(b) THEN (b[i + 1] % 2^r) * 2^(15 - r) ELSE 0)])

RECURSIVE IntBitLen(_)
IntBitLen(n) == IF n = 0 THEN 0 ELSE 1 + IntBitLen(n \div 2)

BBitLen(a) == IF a = <<>> THEN 0 ELSE 15 * (Len(a) - 1) + IntBitLen(a[Len(a)])

BBit(a, i) ==  \* bit i (from 0) of a
    LET w == i \div 15 + 1
    IN  IF w > Len(a) THEN 0 ELSE (a[w] \div 2^(i % 15)) % 2

\* The largest digit q in lo..hi with q * b <= r, given lo * b <= r.
RECURSIVE BDigit(_, _, _, _)
BDigit(r, b, lo, hi) ==
    IF lo = hi THEN lo
    ELSE LET mid == (lo + hi + 1) \div 2
         IN  IF BCmp(BMulSmall(b, mid), r) <= 0
             THEN BDigit(r, b, mid, hi)
             ELSE BDigit(r, b, lo, mid - 1)

\* <<quotient, remainder>> of a by b > 0: long division, limb i of a downwards.
\* The digit lies between the quotients of the leading limbs of r by the leading
\* limb of b plus one and by the leading limb of b.
RECURSIVE BDivStep(_, _, _, _, _)
BDivStep(a, b, i, q, r) ==
    IF i = 0 THEN <<BNorm(q), r>>
    ELSE LET n == Len(b)
             step(r2, top) ==
                 LET digit(d) == BDivStep(a, b, i - 1, <<d>> \o q, BSub(r2, BMulSmall(b, d)))
                 IN  digit(BDigit(r2, b, top \div (b[n] + 1), Min2(Limb - 1, top \div b[n])))
             lead(r2) ==
                 step(r2, (IF Len(r2) > n THEN r2[n + 1] * Limb ELSE 0)
                          + (IF Len(r2) >= n THEN r2[n] ELSE 0))
         IN  lead(BNorm(<<a[i]>> \o r))

\* <<a \div k, a % k>> for one limb k > 0, limb i downwards with remainder r
RECURSIVE BDivSmallC(_, _, _, _)
BDivSmallC(a, k, i, r) ==
    IF i = 0 THEN << <<>>, r >>
    ELSE LET cur == r * Limb + a[i]
             rest == BDivSmallC(a, k, i - 1, cur % k)
         IN  <<Append(rest[1], cur \div k), rest[2]>>

\* <<a \div b, a % b>>; a divisor of several limbs is first scaled (and a with
\* it) to fill its leading limb.
BDivMod(a, b) ==
    IF Len(b) = 1
    THEN LET qr == BDivSmallC(a, b[1], Len(a), 0) IN <<BNorm(qr[1]), BOfInt(qr[2])>>
    ELSE LET scaled(k) ==
                 LET back(qr) == <<qr[1], BShr(qr[2], k)>>
                 IN  back(BDivStep(BShl(a, k), BShl(b, k), Len(BShl(a, k)), <<>>, <<>>))
         IN  scaled((15 - (BBitLen(b) % 15)) % 15)

\* the number of trailing zero bits of a # 0
RECURSIVE IntTrailingZeros(_)
IntTrailingZeros(n) == IF n % 2 = 1 THEN 0 ELSE 1 + IntTrailingZeros(n \div 2)

RECURSIVE BTrailingZeros(_)
BTrailingZeros(a) ==
    IF a[1] = 0 THEN 15 + BTrailingZeros(Tail(a)) ELSE IntTrailingZeros(a[1])

FZero == [s |-> 0, m |-> <<>>, e |-> 0]

\* s * n * 2^e (plus, with sticky, a positive amount below one unit of n),
\* rounded to a double.
FRound(s, n, e, sticky) ==
    IF n = <<>> \/ s = 0 THEN FZero
    ELSE LET carry(m1, d) ==
                 IF BBitLen(m1) > 53
                 THEN [s |-> s, m |-> BShr(m1, 1), e |-> e + d + 1]
                 ELSE [s |-> s, m |-> m1, e |-> e + d]
             nearest(q, c, d) ==
                 carry(IF c > 0 \/ (c = 0 /\ (sticky \/ BBit(q, 0) = 1))
                       THEN BAdd(q, <<1>>) ELSE q, d)
             cut(q, d) ==
                 nearest(q, BCmp(BSub(n, BShl(q, d)), BShl(<<1>>, d - 1)), d)
             fit(len) ==
                 IF len <= 53
                 THEN [s |-> s, m |-> BShl(n, 53 - len), e |-> e - (53 - len)]
                 ELSE cut(BShr(n, len - 53), len - 53)
         IN  fit(BBitLen(n))

\* float(n) for an int n
FOfInt(n) ==
    IF n = 0 THEN FZero
    ELSE FRound(IF n < 0 THEN -1 ELSE 1, BOfInt(IF n < 0 THEN -n ELSE n), 0, FALSE)

FNeg(x) == [x EXCEPT !.s = -x.s]

\* x + y
FAdd(x, y) ==
    IF x.s = 0 THEN y
    ELSE IF y.s = 0 THEN x
    ELSE LET e == IF x.e <= y.e THEN x.e ELSE y.e
             signed(a, b, c) ==
                 IF x.s = y.s THEN FRound(x.s, BAdd(a, b), e, FALSE)
                 ELSE IF c = 0 THEN FZero
                 ELSE IF c > 0 THEN FRound(x.s, BSub(a, b), e, FALSE)
                 ELSE FRound(y.s, BSub(b, a), e, FALSE)
             aligned(a, b) == signed(a, b, BCmp(a, b))
         IN  aligned(BShl(x.m, x.e - e), BShl(y.m, y.e - e))

\* x - y
FSub(x, y) == FAdd(x, FNeg(y))

\* x * y
FMul(x, y) == FRound(x.s * y.s, BMul(x.m, y.m), x.e + y.e, FALSE)

\* x / y for y # 0
FDiv(x, y) ==
    IF x.s = 0 THEN FZero
    ELSE LET rounded(qr, t) ==
                 FRound(x.s * y.s, qr[1], x.e - y.e - t - 56, qr[2] # <<>>)
             stripped(t) == rounded(BDivMod(BShl(x.m, 56), BShr(y.m, t)), t)
         IN  stripped(BTrailingZeros(y.m))

\* x < y, x <= y, x = y
FLess(x, y) == FSub(x, y).s = -1
FLeq(x, y) == FSub(x, y).s <= 0

\* int(x): truncation towards zero
FTrunc(x) ==
    IF x.s = 0 THEN 0
    ELSE x.s * BToInt(IF x.e >= 0 THEN BShl(x.m, x.e) ELSE BShr(x.m, -x.e))

\* The float a decimal literal p/q denotes (p, q exact as floats): the nearest double.
FLit(p, q) == FDiv(FOfInt(p), FOfInt(q))

(***************************************************************************)
(* pathlib                                                                 *)
(***************************************************************************)
\* PurePath.name: the final path component.
PathName(path) ==
    LET i == RFind(path, Chr_slash, Len(path))
    IN  SubSeq(path, i + 1, Len(path))

\* PurePath.stem: the name without its last suffix.
PathStem(path) ==
    LET name == PathName(path)
        i == RFind(name, Chr_dot, Len(name))
    IN  IF 1 < i /\ i < Len(name) THEN SubSeq(name, 1, i - 1) ELSE name

\* fnmatch of a name against the pattern  pre*suf.
GlobMatch(name, pre, suf) ==
    /\ Len(name) >= Len(pre) + Len(suf)
    /\ SubSeq(name, 1, Len(pre)) = pre
    /\ SubSeq(name, Len(name) - Len(suf) + 1, Len(name)) = suf

\* model_dir.glob(pre + '*' + suf) over the directory listing.
Glob(dir, pre, suf) == { n \in dir : GlobMatch(n, pre, suf) }

\* sorted(paths, reverse=True): descending lexicographic order.
RECURSIVE SortedReverse(_)
SortedReverse(S) ==
    IF S = {} THEN <<>>
    ELSE LET top == CHOOSE x \in S : \A y \in S \ {x} : LexLess(y, x)
         IN  <<top>> \o SortedReverse(S \ {top})

(***************************************************************************)
(* server.py: configuration                                                *)
(***************************************************************************)
CLASS_NAMES == <<"grade_a", "grade_b", "premium", "reject">>

GRADE_LABELS ==
    [cn \in {"premium", "grade_a", "grade_b", "reject"} |->
        CASE cn = "premium" -> "Premium"
          [] cn = "grade_a" -> "Grade A"
          [] cn = "grade_b" -> "Grade B"
          [] cn = "reject" -> "Reject"]

\* The entries of CROP_DEFECTS for the crops tried; the other crops' pools have
\* the same shape (four defects each).
CROP_DEFECTS ==
    [c \in {"tomato", "mango"} |->
        CASE c = "tomato" -> <<"cracking", "sunscald", "blossom end rot", "catfacing">>
          [] c = "mango" -> <<"anthracnose", "latex burn", "stem-end rot", "lenticel spotting">>]

DEFAULT_DEFECTS ==
    <<"minor surface blemishes", "slight discoloration", "small bruise", "cosmetic imperfection">>

\* Python None, for `model` and for an absent request field.
NoneModel == <<>>
NoField == "<absent>"

\* The cropType values tried, and str.lower() on them.
CropInputs == {"Mango", "quinoa"}
Lower(s) == IF s = "Mango" THEN "mango" ELSE s

(***************************************************************************)
(* The model's output: a softmax vector over the four classes, in units of *)
(* 10^-5; round(x, 4) rounds it to units of 10^-4, halves to even.         *)
(***************************************************************************)
ProbTotal == 10^5
ProbLevels == {0, 37655, 50000, 62345}
ProbVectors ==
    { v \in [1..Len(CLASS_NAMES) -> ProbLevels] :
        v[1] + v[2] + v[3] + v[4] = ProbTotal }

\* round(p, 4)
round4(p) ==
    LET q == p \div 10
        r == p % 10
    IN  IF r > 5 \/ (r = 5 /\ q % 2 = 1) THEN q + 1 ELSE q

\* Mutant of argmax: the last index holding the maximum.
argmax_last(v) ==
    CHOOSE i \in 1..Len(v) :
        /\ \A j \in 1..Len(v) : v[j] <= v[i]
        /\ \A j \in (i + 1)..Len(v) : v[j] < v[i]

\* np.argmax: the first index holding the maximum.
argmax(v) ==
    CHOOSE i \in 1..Len(v) :
        /\ \A j \in 1..Len(v) : v[j] <= v[i]
        /\ \A j \in 1..(i - 1) : v[j] < v[i]

(***************************************************************************)
(* server.py: load_model                                                   *)
(***************************************************************************)
\* Mutant of load_model_choice: the lists are sorted ascending.
load_model_choice_ascending(model_path, paths, dir) ==
    IF model_path # <<>> /\ model_path \in paths
    THEN model_path
    ELSE LET k1 == SortedReverse(Glob(dir, Str.finetuned_model_, Str.keras))
             k2 == IF k1 = <<>>
                   THEN SortedReverse(Glob(dir, Str.best_model_, Str.keras))
                   ELSE k1
             k3 == IF k2 = <<>>
                   THEN SortedReverse(Glob(dir, <<>>, Str.keras))
                   ELSE k2
         IN  IF k3 # <<>> THEN k3[Len(k3)] ELSE NoneModel

\* The file load_model picks (NoneModel when it finds none).
load_model_choice(model_path, paths, dir) ==
    IF model_path # <<>> /\ model_path \in paths
    THEN model_path
    ELSE LET k1 == SortedReverse(Glob(dir, Str.finetuned_model_, Str.keras))
             k2 == IF k1 = <<>>
                   THEN SortedReverse(Glob(dir, Str.best_model_, Str.keras))
                   ELSE k1
             k3 == IF k2 = <<>>
                   THEN SortedReverse(Glob(dir, <<>>, Str.keras))
                   ELSE k2
         IN  IF k3 # <<>> THEN k3[1] ELSE NoneModel

\* Mutant of Routes: a third rule is registered.
Routes_with_reload ==
    { [rule |-> "/health", methods |-> {"GET"}, endpoint |-> "health"],
      [rule |-> "/predict", methods |-> {"POST"}, endpoint |-> "predict"],
      [rule |-> "/reload", methods |-> {"POST"}, endpoint |-> "reload"] }

\* The rules the two @app.route decorators register.
Routes ==
    { [rule |-> "/health", methods |-> {"GET"}, endpoint |-> "health"],
      [rule |-> "/predict", methods |-> {"POST"}, endpoint |-> "predict"] }

\* Module import: the decorators register the routes, then load_model() runs.
\* tf.keras.models.load_model and the warm-up prediction may raise, which ends
\* the process during import.
Startup ==
    /\ pc = "import"
    /\ url_map' = Routes
    /\ startup' = [MODEL_PATH |-> env_MODEL_PATH, paths |-> fs_paths, dir |-> model_dir]
    /\ LET chosen == load_model_choice(env_MODEL_PATH, fs_paths, model_dir)
       IN  IF chosen = NoneModel
           THEN /\ model' = NoneModel
                /\ model_version' = Str.unknown
                /\ pc' = "serving"
           ELSE \E loads \in BOOLEAN :
                   IF loads
                   THEN /\ model' = chosen
                        /\ model_version' = PathStem(chosen)
                        /\ pc' = "serving"
                   ELSE /\ model' = NoneModel
                        /\ model_version' = Str.unknown
                        /\ pc' = "crashed"
    /\ UNCHANGED <<env_MODEL_PATH, fs_paths, model_dir, request, response, versions_seen>>

(***************************************************************************)
(* server.py: the handlers                                                 *)
(***************************************************************************)
NoOutput == <<>>
NoResponse ==
    [endpoint |-> "none", status |-> 0, body |-> [kind |-> "none"],
     invoked |-> FALSE, output |-> NoOutput]

ErrorResponse(endpoint, status, msg, invoked) ==
    [endpoint |-> endpoint, status |-> status,
     body |-> [kind |-> "error", error |-> msg],
     invoked |-> invoked, output |-> NoOutput]

infer_defects(crop_type, grade_name, probabilities) ==
    IF grade_name = "Premium" THEN <<>>
    ELSE LET key == Lower(crop_type)
             pool == IF key \in DOMAIN CROP_DEFECTS THEN CROP_DEFECTS[key] ELSE DEFAULT_DEFECTS
             count == IF grade_name = "Grade A" THEN 1
                      ELSE IF grade_name = "Grade B" THEN 2
                      ELSE 3
         \* indices = np.argsort(probabilities) is assigned and never read
         IN  [i \in 1..Min2(count, Len(pool)) |-> pool[((i - 1) % Len(pool)) + 1]]

health ==
    [endpoint |-> "health", status |-> 200,
     body |-> [kind |-> "health",
               status |-> IF model # NoneModel THEN "healthy" ELSE "no_model",
               model_version |-> model_version],
     invoked |-> FALSE, output |-> NoOutput]

\* The body of the try block of predict, for image bytes that preprocess_image
\* accepts; out is what model.predict returns for them.
predict_success(crop_type, out) ==
    LET probabilities == out
        top_idx == argmax(probabilities)
        confidence == probabilities[top_idx]
        class_name == CLASS_NAMES[top_idx]
        grade_label == GRADE_LABELS[class_name]
        defects == infer_defects(crop_type, grade_label, probabilities)
        n == Min2(Len(CLASS_NAMES), Len(probabilities))
    IN  [endpoint |-> "predict", status |-> 200,
         body |-> [kind |-> "prediction",
                   grade |-> grade_label,
                   confidence |-> round4(confidence),
                   defects |-> defects,
                   probabilities |->
                       [l \in {GRADE_LABELS[CLASS_NAMES[i]] : i \in 1..n} |->
                           LET i == CHOOSE j \in 1..n : GRADE_LABELS[CLASS_NAMES[j]] = l
                           IN  round4(probabilities[i])],
                   modelVersion |-> model_version],
         invoked |-> TRUE, output |-> out]

\* Mutant of predict: the image is looked for before the model is.
predict_image_first(req, out) ==
    IF ~req.has_image \/ req.image = "empty"
    THEN ErrorResponse("predict", 400, "No image provided", FALSE)
    ELSE IF model = NoneModel
    THEN ErrorResponse("predict", 503, "No model loaded", FALSE)
    ELSE IF req.image = "valid"
    THEN predict_success(IF req.crop = NoField THEN "tomato" ELSE req.crop, out)
    ELSE ErrorResponse("predict", 500, "Prediction failed", FALSE)

\* predict(): req is the request, out the model's output should it be invoked.
predict(req, out) ==
    IF model = NoneModel
    THEN ErrorResponse("predict", 503, "No model loaded", FALSE)
    ELSE IF req.ctype = "multipart" /\ req.has_image
    THEN \* 'image' in request.files
         IF req.image = "empty"
         THEN ErrorResponse("predict", 400, "No image provided", FALSE)
         ELSE IF req.image = "garbage"
         THEN ErrorResponse("predict", 500, "Prediction failed", FALSE)
         ELSE predict_success(IF req.crop = NoField THEN "tomato" ELSE req.crop, out)
    ELSE IF req.ctype = "json"
    THEN IF req.json # "object"
         THEN \* 'image' in data / data.get raise outside the try block
              ErrorResponse("predict", 500, "Internal Server Error", FALSE)
         ELSE IF req.has_image /\ req.image = "undecodable"
         THEN \* base64.b64decode raises outside the try block
              ErrorResponse("predict", 500, "Internal Server Error", FALSE)
         ELSE IF ~req.has_image \/ req.image = "empty"
         THEN ErrorResponse("predict", 400, "No image provided", FALSE)
         ELSE IF req.image = "garbage"
         THEN ErrorResponse("predict", 500, "Prediction failed", FALSE)
         ELSE predict_success(IF req.crop = NoField THEN "tomato" ELSE req.crop, out)
    ELSE ErrorResponse("predict", 400, "No image provided", FALSE)

\* The /predict bodies tried.
PredictBodies ==
    { [ctype |-> "multipart", has_image |-> TRUE, image |-> i, json |-> "none", crop |-> c] :
        i \in {"empty", "valid", "garbage"}, c \in CropInputs \cup {NoField} }
    \cup { [ctype |-> "multipart", has_image |-> FALSE, image |-> "empty", json |-> "none", crop |-> c] :
        c \in {NoField} }
    \cup { [ctype |-> "json", has_image |-> TRUE, image |-> i, json |-> "object", crop |-> c] :
        i \in {"empty", "valid", "garbage", "undecodable"}, c \in {NoField} }
    \cup { [ctype |-> "json", has_image |-> FALSE, image |-> "empty", json |-> j, crop |-> NoField] :
        j \in {"object", "array", "scalar"} }
    \cup { [ctype |-> "none", has_image |-> FALSE, image |-> "empty", json |-> "none", crop |-> NoField] }

NoBody == [ctype |-> "none", has_image |-> FALSE, image |-> "empty", json |-> "none", crop |-> NoField]

NoRequest == [path |-> "", method |-> "", body |-> NoBody]

Requests ==
    { [path |-> "/predict", method |-> "POST", body |-> b] : b \in PredictBodies }
    \cup { [path |-> p, method |-> m, body |-> NoBody] :
              p \in {"/health", "/predict", "/reload"}, m \in {"GET", "POST"} }

\* What model.predict may return for a request: any softmax vector when the
\* request carries an image that preprocess_image accepts.
ModelOutputs(req) ==
    IF req.path = "/predict" /\ req.body.has_image /\ req.body.image = "valid"
    THEN ProbVectors
    ELSE {NoOutput}

\* Flask's dispatch of a request over url_map, and the handler's response.
dispatch(req, out) ==
    LET rules == { r \in url_map : r.rule = req.path }
        allowed == { r \in rules : req.method \in r.methods }
    IN  IF rules = {} THEN ErrorResponse("none", 404, "Not Found", FALSE)
        ELSE IF allowed = {} THEN ErrorResponse("none", 405, "Method Not Allowed", FALSE)
        ELSE LET r == CHOOSE x \in allowed : TRUE
             IN  IF r.endpoint = "health" THEN health
                 ELSE IF r.endpoint = "predict" THEN predict(req.body, out)
                 ELSE ErrorResponse(r.endpoint, 200, "", FALSE)

\* The requests tried while the choice of load_model is examined.
ProbeRequests ==
    { [path |-> "/health", method |-> "GET", body |-> NoBody],
      [path |-> "/predict", method |-> "POST", body |-> NoBody] }

\* Mutant of Serve: a handler that finds no model loaded calls load_model again.
Serve_reloading(reqs) ==
    /\ pc = "serving"
    /\ \E req \in reqs : \E out \in ModelOutputs(req) :
          LET resp == dispatch(req, out)
              chosen == load_model_choice(env_MODEL_PATH, fs_paths, model_dir)
          IN  /\ request' = req
              /\ response' = resp
              /\ versions_seen' =
                    IF resp.endpoint = "predict" /\ resp.status = 200
                    THEN versions_seen \cup {resp.body.modelVersion}
                    ELSE versions_seen
              /\ IF model = NoneModel /\ chosen # NoneModel
                 THEN model' = chosen /\ model_version' = PathStem(chosen)
                 ELSE UNCHANGED <<model, model_version>>
    /\ UNCHANGED <<pc, url_map, env_MODEL_PATH, fs_paths, model_dir, startup>>

\* One request of reqs served; module state is untouched by the handlers.
Serve(reqs) ==
    /\ pc = "serving"
    /\ \E req \in reqs : \E out \in ModelOutputs(req) :
          LET resp == dispatch(req, out)
          IN  /\ request' = req
              /\ response' = resp
              /\ versions_seen' =
                    IF resp.endpoint = "predict" /\ resp.status = 200
                    THEN versions_seen \cup {resp.body.modelVersion}
                    ELSE versions_seen
    /\ UNCHANGED <<pc, url_map, env_MODEL_PATH, fs_paths, model_dir, model,
                   model_version, startup>>

\* The environment: a newly trained model file appears in the models directory
\* while the server runs.
LateNames == { Str.finetuned_model_ \o Str.v9 \o Str.keras }

FsCreate ==
    /\ pc = "serving"
    /\ \E n \in LateNames \ model_dir : model_dir' = model_dir \cup {n}
    /\ UNCHANGED <<pc, url_map, env_MODEL_PATH, fs_paths, model, model_version,
                   request, response, startup, versions_seen>>

HandleRequest == Serve(Requests)
HandleProbe == Serve(ProbeRequests)

\* The state as the module is imported, over the directory listings built from names.
ServerInit(names) ==
    /\ pc = "import"
    /\ url_map = {}
    /\ env_MODEL_PATH \in ModelPathValues
    /\ fs_paths \in SUBSET {Str.custom_path}
    /\ model_dir \in SUBSET names
    /\ model = NoneModel
    /\ model_version = Str.unknown
    /\ request = NoRequest
    /\ response = NoResponse
    /\ startup = [MODEL_PATH |-> <<>>, paths |-> {}, dir |-> {}]
    /\ versions_seen = {}

ServerOff ==
    /\ pc = "off"
    /\ url_map = {}
    /\ env_MODEL_PATH = <<>>
    /\ fs_paths = {}
    /\ model_dir = {}
    /\ model = NoneModel
    /\ model_version = Str.unknown
    /\ request = NoRequest
    /\ response = NoResponse
    /\ startup = [MODEL_PATH |-> <<>>, paths |-> {}, dir |-> {}]
    /\ versions_seen = {}

SplitOff ==
    /\ split_pc = "idle"
    /\ src_files = <<>>
    /\ splits = <<>>
    /\ copied = 0
    /\ out_files = {}
WeightsOff == cw_pc = "idle" /\ train_dir = <<>> /\ class_weights = <<>>
ReportOff ==
    /\ confidences = <<>>
    /\ all_flags = <<>>
    /\ main_locals = <<>>
    /\ report = <<>>
BiasOff ==
    /\ bias_pc = "idle"
    /\ test_set = <<>>
    /\ crop_result = <<>>
    /\ flags = <<>>
    /\ result_line = ""
    /\ ReportOff
EvalOff ==
    /\ eval_pc = "idle"
    /\ HAS_SKLEARN = FALSE
    /\ test_dir = <<>>
    /\ test_gen_classes = <<>>
    /\ predicted_classes = <<>>
    /\ cm = <<>>
HandOff ==
    /\ programs_run = <<>>
    /\ now = 0
    /\ quality_grading = {}
    /\ saved = {}
    /\ latest = [raised |-> "", name |-> NoneModel]
PrepOff ==
    /\ main_pc = "idle"
    /\ pending = {}
    /\ main_total = 0
    /\ handled = <<>>
    /\ evaluate_crops = {}
    /\ bias_crops = {}
PipeOff == EvalOff /\ HandOff /\ PrepOff

\* The server under requests of every kind, over few directory listings.
ServedDirNames ==
    { Str.finetuned_model_ \o Str.v9 \o Str.keras,
      Str.finetuned_model_ \o Str.v9 \o Str.h5 }

Init == ServerInit(ServedDirNames) /\ SplitOff /\ WeightsOff /\ BiasOff /\ PipeOff

Next ==
    \/ Startup /\ UNCHANGED <<splitVars, weightVars, biasVars, pipeVars>>
    \/ HandleRequest /\ UNCHANGED <<splitVars, weightVars, biasVars, pipeVars>>
    \/ FsCreate /\ UNCHANGED <<splitVars, weightVars, biasVars, pipeVars>>

Spec == Init /\ [][Next]_vars

\* load_model over every directory listing, probed by /health and /predict.
InitLoad == ServerInit(ModelDirNames) /\ SplitOff /\ WeightsOff /\ BiasOff /\ PipeOff

NextLoad ==
    \/ Startup /\ UNCHANGED <<splitVars, weightVars, biasVars, pipeVars>>
    \/ HandleProbe /\ UNCHANGED <<splitVars, weightVars, biasVars, pipeVars>>
    \/ FsCreate /\ UNCHANGED <<splitVars, weightVars, biasVars, pipeVars>>

SpecLoad == InitLoad /\ [][NextLoad]_vars

(***************************************************************************)
(* Claims about server.py                                                  *)
(***************************************************************************)
RouteKeys == { <<r.rule, r.methods>> : r \in url_map }

C2_SingleModel ==
    [][pc = "serving" =>
          /\ model' = model
          /\ model_version' = model_version
          /\ versions_seen' \subseteq {model_version}
          /\ Cardinality(versions_seen') <= 1]_vars

C2_Witness ==
    /\ pc = "serving"
    /\ response.endpoint = "predict"
    /\ response.status = 200
    /\ versions_seen = {model_version}
    /\ model_dir # startup.dir

\* C3: the condition of the claim, on the environment load_model saw.
NoModelAtStartup ==
    /\ startup.MODEL_PATH = <<>> \/ startup.MODEL_PATH \notin startup.paths
    /\ \A n \in startup.dir : ~GlobMatch(n, <<>>, Str.keras)

\* C3: when load_model found no model, every /predict answers 503 'No model
\* loaded' whatever its body, /health reports no_model and 'unknown', and no
\* model is ever loaded or invoked.
C3_NoRecovery ==
    (pc = "serving" /\ NoModelAtStartup) =>
        /\ model = NoneModel
        /\ model_version = Str.unknown
        /\ ~response.invoked
        /\ response.endpoint = "predict" =>
              /\ response.status = 503
              /\ response.body = [kind |-> "error", error |-> "No model loaded"]
        /\ response.endpoint = "health" =>
              /\ response.body.status = "no_model"
              /\ response.body.model_version = Str.unknown

C3_Witness ==
    /\ pc = "serving"
    /\ NoModelAtStartup
    /\ \E n \in model_dir : GlobMatch(n, Str.finetuned_model_, Str.keras)
    /\ request.path = "/predict"
    /\ request.body.has_image
    /\ request.body.image = "valid"
    /\ response.status = 503

\* The grade labels in the order of the classes grade_a, grade_b, premium, reject.
LabelOrder == <<"Grade A", "Grade B", "Premium", "Reject">>

\* C4: a successful /predict response names the first class of highest
\* predicted probability, its confidence is that grade's entry of the
\* probabilities map, and the map has exactly the four grade labels as keys.
C4_GradeIsArgmax ==
    (response.endpoint = "predict" /\ response.status = 200) =>
        LET out == response.output
            b == response.body
        IN  /\ b.grade \in {"Premium", "Grade A", "Grade B", "Reject"}
            /\ \E i \in 1..4 :
                  /\ b.grade = LabelOrder[i]
                  /\ \A j \in 1..4 : out[j] <= out[i]
                  /\ \A j \in 1..4 : j < i => out[j] < out[i]
            /\ DOMAIN b.probabilities = {"Premium", "Grade A", "Grade B", "Reject"}
            /\ b.confidence = b.probabilities[b.grade]

C4_Witness ==
    /\ response.endpoint = "predict"
    /\ response.status = 200
    /\ response.body.grade = "Grade B"
    /\ response.output[2] = response.output[4]

\* C5: with a model loaded, a /predict request that carries no image gets
\* 400 'No image provided' and the model is not invoked.
C5_NoImage400 ==
    ( /\ pc = "serving"
      /\ model # NoneModel
      /\ response.endpoint = "predict"
      /\ ~request.body.has_image \/ request.body.image = "empty" ) =>
        /\ response.status = 400
        /\ response.body = [kind |-> "error", error |-> "No image provided"]
        /\ ~response.invoked

\* C6: the families of the claim, on the directory load_model saw.
Latest(S) == CHOOSE x \in S : \A y \in S \ {x} : LexLess(y, x)

ClaimedChoice ==
    LET f1 == { n \in startup.dir : GlobMatch(n, Str.finetuned_model_, Str.keras) }
        f2 == { n \in startup.dir : GlobMatch(n, Str.best_model_, Str.keras) }
        f3 == { n \in startup.dir : GlobMatch(n, <<>>, Str.keras) }
    IN  IF startup.MODEL_PATH # <<>> /\ startup.MODEL_PATH \in startup.paths
        THEN startup.MODEL_PATH
        ELSE IF f1 # {} THEN Latest(f1)
        ELSE IF f2 # {} THEN Latest(f2)
        ELSE IF f3 # {} THEN Latest(f3)
        ELSE NoneModel

\* v is the stem of path: the final component is v followed by one suffix.
IsStemOf(v, path) ==
    \E k \in 1..Len(PathName(path)) :
        LET name == PathName(path)
            ext == SubSeq(name, k + 1, Len(name))
        IN  /\ v = SubSeq(name, 1, k)
            /\ Len(ext) >= 2
            /\ ext[1] = Chr_dot
            /\ \A i \in 2..Len(ext) : ext[i] # Chr_dot

\* C6: the loaded model is the file of highest priority (MODEL_PATH, then the
\* latest finetuned_model_*, best_model_*, *.keras) and model_version its stem.
C6_LoadPriority ==
    pc = "serving" =>
        /\ model = ClaimedChoice
        /\ model # NoneModel => IsStemOf(model_version, model)
        /\ model = NoneModel => model_version = Str.unknown

C6_Witness ==
    /\ pc = "serving"
    /\ Cardinality(Glob(startup.dir, Str.finetuned_model_, Str.keras)) = 2
    /\ Glob(startup.dir, Str.best_model_, Str.keras) # {}
    /\ model = Str.finetuned_model_ \o Str.v9 \o Str.keras
    /\ response.endpoint = "health"

(***************************************************************************)
(* prepare_data.py: copy_images_with_split                                 *)
(***************************************************************************)
MaxFiles == 90

\* The names of the splits, crops, grades and image suffixes
Name ==
    [ train |-> <<116, 114, 97, 105, 110>>,
      val |-> <<118, 97, 108>>,
      test |-> <<116, 101, 115, 116>>,
      tomato |-> <<116, 111, 109, 97, 116, 111>>,
      grade_a |-> <<103, 114, 97, 100, 101, 95, 97>>,
      jpg |-> <<46, 106, 112, 103>>,
      JPG |-> <<46, 74, 80, 71>>,
      jpeg |-> <<46, 106, 112, 101, 103>>,
      png |-> <<46, 112, 110, 103>>,
      bmp |-> <<46, 98, 109, 112>>,
      grade_b |-> <<103, 114, 97, 100, 101, 95, 98>>,
      premium |-> <<112, 114, 101, 109, 105, 117, 109>>,
      reject |-> <<114, 101, 106, 101, 99, 116>>,
      maize |-> <<109, 97, 105, 122, 101>>,
      okra |-> <<111, 107, 114, 97>> ]
Chr_underscore == Name.grade_a[6]
Chr_0 == Str.v10[2]

\* str.lower() on ASCII text
LowerText(s) == [i \in DOMAIN s |-> IF s[i] >= 65 /\ s[i] <= 90 THEN s[i] + 32 ELSE s[i]]

\* f"{i:05d}" for 0 <= i < 10^5
Pad5(i) == [k \in 1..5 |-> Chr_0 + ((i \div 10^(5 - k)) % 10)]

\* The suffixes the callers let through their filter, as cycles over the listing.
SuffixCycles ==
    { <<Name.jpg>>, <<Name.JPG, Name.jpeg, Name.png>> }

\* The list a caller hands over: n image files of a source directory.
SourceListing(n, cycle) ==
    [i \in 1..n |-> [stem |-> i, suffix |-> cycle[((i - 1) % Len(cycle)) + 1]]]

\* random.shuffle: some permutation of the list.
ShuffleKinds == {"same", "reversed", "rotated"}
Shuffled(s, kind) ==
    LET n == Len(s)
    IN  IF kind = "reversed" THEN [i \in 1..n |-> s[n + 1 - i]]
        ELSE IF kind = "rotated" THEN [i \in 1..n |-> s[(i % n) + 1]]
        ELSE s

train_ratio == FLit(7, 10)
val_ratio == FLit(15, 100)
SplitNames == <<Name.train, Name.val, Name.test>>
CopiedSuffixes == {Name.jpg, Name.jpeg, Name.png, Name.bmp}
SplitGrades == {Name.grade_a}
SplitCrops == {Name.tomato}
\* source files shutil.copy2 fails on (by stem): none, or the first
UnreadableSets == {{}, {1}}

\* train_end, val_end
split_ends(n) ==
    << FTrunc(FMul(FOfInt(n), train_ratio)),
       FTrunc(FMul(FOfInt(n), FAdd(train_ratio, val_ratio))) >>

\* src_files[a:b], Python's slice with 0 <= a, b
Slice(s, a, b) == SubSeq(s, a + 1, Min2(b, Len(s)))

\* The positions (from 0) of files whose copy succeeds.
CopiedPositions(files, unreadable) ==
    { i \in 0..(Len(files) - 1) :
        /\ LowerText(files[i + 1].suffix) \in CopiedSuffixes
        /\ files[i + 1].stem \notin unreadable }

dest_name(crop, grade, split_name, i, ext) ==
    crop \o <<Chr_underscore>> \o grade \o <<Chr_underscore>> \o split_name
         \o <<Chr_underscore>> \o Pad5(i) \o ext

\* The files copied from one split, as they land under OUTPUT_DIR.
copied_files(grade, crop, split_name, files, positions) ==
    { [dir |-> <<split_name, grade>>,
       name |-> dest_name(crop, grade, split_name, i, LowerText(files[i + 1].suffix))] :
        i \in positions }

\* The copy loop over splits.items() and the returned count.
copy_splits(grade, crop, train, val, test, train_ok, val_ok, test_ok) ==
    /\ splits' = [train |-> train, val |-> val, test |-> test]
    /\ out_files' = out_files \cup copied_files(grade, crop, Name.train, train, train_ok)
                              \cup copied_files(grade, crop, Name.val, val, val_ok)
                              \cup copied_files(grade, crop, Name.test, test, test_ok)
    /\ copied' = Cardinality(train_ok) + Cardinality(val_ok) + Cardinality(test_ok)

slice_splits(grade, crop, unreadable, train, val, test) ==
    copy_splits(grade, crop, train, val, test,
                CopiedPositions(train, unreadable), CopiedPositions(val, unreadable),
                CopiedPositions(test, unreadable))

split_shuffled(grade, crop, unreadable, shuffled, train_end, val_end) ==
    /\ src_files' = shuffled
    /\ slice_splits(grade, crop, unreadable,
                    Slice(shuffled, 0, train_end),
                    Slice(shuffled, train_end, val_end),
                    Slice(shuffled, val_end, Len(shuffled)))

split_at(ends) ==
    \E grade \in SplitGrades, crop \in SplitCrops,
       kind \in ShuffleKinds, unreadable \in UnreadableSets :
        split_shuffled(grade, crop, unreadable, Shuffled(src_files, kind),
                       ends[1], ends[2])

copy_images_with_split ==
    /\ split_pc = "ready"
    /\ split_at(split_ends(Len(src_files)))
    /\ split_pc' = "returned"

InitSplit ==
    /\ ServerOff /\ WeightsOff /\ BiasOff /\ PipeOff
    /\ split_pc = "ready"
    /\ \E n \in 1..MaxFiles, cycle \in SuffixCycles : src_files = SourceListing(n, cycle)
    /\ splits = <<>>
    /\ copied = 0
    /\ out_files = {}

NextSplit ==
    copy_images_with_split /\ UNCHANGED <<serverVars, weightVars, biasVars, pipeVars>>

SpecSplit == InitSplit /\ [][NextSplit]_vars

(***************************************************************************)
(* Claims about prepare_data.py                                            *)
(***************************************************************************)
SeqCount(s, x) == Cardinality({i \in DOMAIN s : s[i] = x})
SeqRange(s) == {s[i] : i \in DOMAIN s}

\* C7 (as stated): copy_images_with_split puts each of the n files in exactly one
\* split; train holds floor(0.7 n) files, val holds floor(0.85 n) - floor(0.7 n)
\* and test holds the rest, so test is non-empty whenever n >= 1.
C7_SplitSizes ==
    split_pc = "returned" =>
        LET n == Len(src_files)
            all == splits.train \o splits.val \o splits.test
        IN  /\ \A f \in SeqRange(src_files) : SeqCount(all, f) = 1
            /\ Len(all) = n
            /\ Len(splits.train) = (7 * n) \div 10
            /\ Len(splits.val) = (85 * n) \div 100 - (7 * n) \div 10
            /\ Len(splits.test) = n - (85 * n) \div 100
            /\ (n >= 1 => splits.test # <<>>)

(***************************************************************************)
(* train.py: compute_class_weights                                         *)
(***************************************************************************)
MaxEntries == 5

TrainDirNames == {Name.grade_a, Name.grade_b, Name.premium, Name.reject}

\* sorted(names): ascending, as a 1-based list
RECURSIVE SortedNames(_)
SortedNames(S) ==
    IF S = {} THEN <<>>
    ELSE LET least == CHOOSE x \in S : \A y \in S \ {x} : LexLess(x, y)
         IN  <<least>> \o SortedNames(S \ {least})

RECURSIVE SumOver(_, _)
SumOver(f, S) ==
    IF S = {} THEN 0
    ELSE LET x == CHOOSE y \in S : TRUE IN f[x] + SumOver(f, S \ {x})

\* The listings of the training directory: each name is a class directory holding
\* 0..MaxEntries entries, or an entry that is not a directory.
TrainDirs ==
    [TrainDirNames -> [is_dir : {TRUE}, entries : 0..MaxEntries]
                      \cup {[is_dir |-> FALSE, entries |-> 0]}]

\* Mutant of class_weight: the number of classes is left out.
class_weight_unbalanced(total, num_classes, count) ==
    FDiv(FOfInt(total), FOfInt(count))

\* total / (num_classes * count)
class_weight(total, num_classes, count) ==
    FDiv(FOfInt(total), FOfInt(num_classes * count))

class_counts_of(dir) ==
    [name \in {x \in DOMAIN dir : dir[x].is_dir} |-> dir[name].entries]

compute_class_weights ==
    /\ cw_pc = "ready"
    /\ LET class_counts == class_counts_of(train_dir)
           total == SumOver(class_counts, DOMAIN class_counts)
           num_classes == Cardinality(DOMAIN class_counts)
           sorted_names == SortedNames(DOMAIN class_counts)
       IN  IF \E name \in DOMAIN class_counts : num_classes * class_counts[name] = 0
           THEN \* ZeroDivisionError: nothing is returned
                /\ cw_pc' = "raised"
                /\ class_weights' = class_weights
           ELSE /\ cw_pc' = "returned"
                /\ class_weights' =
                       [idx \in 0..(num_classes - 1) |->
                           class_weight(total, num_classes,
                                        class_counts[sorted_names[idx + 1]])]
    /\ UNCHANGED train_dir

InitWeights ==
    /\ ServerOff /\ SplitOff /\ BiasOff /\ PipeOff
    /\ cw_pc = "ready"
    /\ train_dir \in TrainDirs
    /\ class_weights = <<>>

NextWeights ==
    compute_class_weights /\ UNCHANGED <<serverVars, splitVars, biasVars, pipeVars>>

SpecWeights == InitWeights /\ [][NextWeights]_vars

(***************************************************************************)
(* Claims about train.py                                                   *)
(***************************************************************************)
ClassDirs == {x \in DOMAIN train_dir : train_dir[x].is_dir}
ClassTotal == SumOver([x \in ClassDirs |-> train_dir[x].entries], ClassDirs)
\* the class directory with exactly idx class directories before it in the alphabet
ClassAt(idx) ==
    CHOOSE x \in ClassDirs : Cardinality({y \in ClassDirs : LexLess(y, x)}) = idx

\* | w - num/den | <= 2^-53 * num/den, computed exactly (num, den > 0)
WithinRounding(w, num, den) ==
    /\ w.s = 1
    /\ LET scaled == IF w.e >= 0 THEN BShl(w.m, w.e) ELSE w.m
           lhs == BMul(scaled, BOfInt(den))
           rhs == IF w.e >= 0 THEN BOfInt(num) ELSE BShl(BOfInt(num), -w.e)
           diff == IF BCmp(lhs, rhs) >= 0 THEN BSub(lhs, rhs) ELSE BSub(rhs, lhs)
       IN  BCmp(BShl(diff, 53), rhs) <= 0

\* C8 (as stated): the class at alphabetical index i gets total / (num_classes *
\* count_i); weight_i * count_i is the same for every class, and the sum over the
\* classes of weight_i * count_i equals total.
C8_EqualProducts ==
    cw_pc = "returned" =>
        LET k == Cardinality(ClassDirs)
            product(i) == FMul(class_weights[i], FOfInt(train_dir[ClassAt(i)].entries))
            RECURSIVE sum_to(_)
            sum_to(i) == IF i < 0 THEN FZero ELSE FAdd(sum_to(i - 1), product(i))
        IN  /\ DOMAIN class_weights = 0..(k - 1)
            /\ \A i \in 0..(k - 1) :
                   class_weights[i] =
                       FDiv(FOfInt(ClassTotal), FOfInt(k * train_dir[ClassAt(i)].entries))
            /\ \A i, j \in 0..(k - 1) : product(i) = product(j)
            /\ sum_to(k - 1) = FOfInt(ClassTotal)

\* C8 (amended): when every class directory holds an entry, the class at
\* alphabetical index i gets the double nearest to total / (num_classes * count_i):
\* weight_i * count_i is within a relative 2^-53 of total / num_classes, not
\* equal to it; when a class directory is empty the call raises and returns nothing.
C8_WeightsWithinRounding ==
    /\ cw_pc = "returned" =>
           LET k == Cardinality(ClassDirs)
           IN  /\ DOMAIN class_weights = 0..(k - 1)
               /\ \A x \in ClassDirs : train_dir[x].entries > 0
               /\ \A i \in 0..(k - 1) :
                      WithinRounding(class_weights[i], ClassTotal,
                                     k * train_dir[ClassAt(i)].entries)
    /\ cw_pc = "raised" =>
           /\ \E x \in ClassDirs : train_dir[x].entries = 0
           /\ class_weights = <<>>

\* C8 witness: three classes of 3, 4 and 4 entries were weighted, and the products
\* weight_i * count_i are not all the same float.
C8_Witness ==
    /\ cw_pc = "returned"
    /\ Cardinality(ClassDirs) = 3
    /\ \E i, j \in 0..2 :
           /\ train_dir[ClassAt(i)].entries = 3
           /\ train_dir[ClassAt(j)].entries = 4
           /\ FMul(class_weights[i], FOfInt(3)) # FMul(class_weights[j], FOfInt(4))

(***************************************************************************)
(* bias_test.py: test_crop_accuracy_parity and test_reject_rate_parity     *)
(***************************************************************************)
MaxSamples == 8
MaxCorrect == 3
MaxRejected == 2
MinCropSamples == 5
MinFlagSamples == 10
MaxPerGrade == 5
MinComboSamples == 5
MinConfSamples == 5
TOP_PATTERNS == 10

BiasCrops == <<Name.maize, Name.okra, Name.tomato>>
BiasClassNames == <<Name.grade_a, Name.grade_b, Name.premium, Name.reject>>

DISPARATE_IMPACT_THRESHOLD == FLit(8, 10)
ACCURACY_GAP_THRESHOLD == FLit(15, 100)
FPR_GAP_THRESHOLD == FLit(10, 100)

\* class_names.index(name), or -1
IndexOf(names, name) ==
    IF \E i \in DOMAIN names : names[i] = name
    THEN (CHOOSE i \in DOMAIN names : names[i] = name /\ \A j \in 1..(i - 1) : names[j] # name) - 1
    ELSE -1

\* stem.split('_')[0]
FirstPart(s) ==
    IF \E i \in DOMAIN s : s[i] = Chr_underscore
    THEN SubSeq(s, 1, (CHOOSE i \in DOMAIN s :
                          s[i] = Chr_underscore /\ \A j \in 1..(i - 1) : s[j] # Chr_underscore) - 1)
    ELSE s

extract_crop_from_filename(filepath) == LowerText(FirstPart(PathStem(filepath)))

\* The test samples of one crop: `correct` predicted right, `rejected` predicted
\* 'reject' wrongly, the others predicted a wrong grade that is not 'reject'.
CropSamples(crop, p) ==
    [i \in 1..p.total |->
        LET true_class == IF i > p.correct /\ i <= p.correct + p.rejected THEN 1 ELSE 0
            pred_class == IF i <= p.correct THEN 0
                          ELSE IF i <= p.correct + p.rejected
                               THEN IndexOf(BiasClassNames, Name.reject)
                               ELSE 1
        IN  [file_path |-> Name.test \o <<Chr_slash>> \o BiasClassNames[true_class + 1]
                           \o <<Chr_slash>>
                           \o dest_name(crop, BiasClassNames[true_class + 1], Name.test,
                                        i - 1, Name.jpg),
             true_class |-> true_class,
             pred_class |-> pred_class]]

SampleTotals == {MinCropSamples - 1, MinCropSamples, MaxSamples}
AccuracyProfiles ==
    {[total |-> 0, correct |-> 0, rejected |-> 0]}
    \cup {[total |-> t, correct |-> c, rejected |-> 0] : t \in SampleTotals, c \in 0..MaxCorrect}
RejectProfiles ==
    {[total |-> 0, correct |-> 0, rejected |-> 0]}
    \cup {[total |-> t, correct |-> 0, rejected |-> r] :
             t \in SampleTotals \cup {MinFlagSamples}, r \in 0..MaxRejected}

TestSetOf(ps) ==
    CropSamples(BiasCrops[1], ps[1]) \o CropSamples(BiasCrops[2], ps[2])
        \o CropSamples(BiasCrops[3], ps[3])

\* sum(values) over a list of floats, from the int 0
RECURSIVE FSum(_)
FSum(xs) == IF xs = <<>> THEN FZero ELSE FAdd(FSum(SubSeq(xs, 1, Len(xs) - 1)), xs[Len(xs)])

\* max(values), min(values) of a non-empty set of floats
RECURSIVE FMax(_)
FMax(S) ==
    LET x == CHOOSE y \in S : TRUE
        larger(a, b) == IF FLess(a, b) THEN b ELSE a
    IN  IF S = {x} THEN x ELSE larger(x, FMax(S \ {x}))

RECURSIVE FMin(_)
FMin(S) ==
    LET x == CHOOSE y \in S : TRUE
        smaller(a, b) == IF FLess(b, a) THEN b ELSE a
    IN  IF S = {x} THEN x ELSE smaller(x, FMin(S \ {x}))

\* x put into the sorted list after every element that does not come after it
InsertByKey(sorted, x, key, desc) ==
    LET after(y) == IF desc THEN FLess(key[y], key[x]) ELSE FLess(key[x], key[y])
        p == Cardinality({j \in DOMAIN sorted : ~after(sorted[j])})
    IN  SubSeq(sorted, 1, p) \o <<x>> \o SubSeq(sorted, p + 1, Len(sorted))

\* sorted(order, key=key.get, reverse=desc): stable
RECURSIVE SortedByKey(_, _, _)
SortedByKey(order, key, desc) ==
    IF order = <<>> THEN <<>>
    ELSE InsertByKey(SortedByKey(SubSeq(order, 1, Len(order) - 1), key, desc),
                     order[Len(order)], key, desc)

\* The keys of a dict filled while walking the samples' crops, in insertion order.
RECURSIVE FirstSeen(_)
FirstSeen(crops) ==
    IF crops = <<>> THEN <<>>
    ELSE LET rest == FirstSeen(SubSeq(crops, 1, Len(crops) - 1))
             crop == crops[Len(crops)]
         IN  IF \E i \in DOMAIN rest : rest[i] = crop THEN rest ELSE Append(rest, crop)

\* One flag for each crop of `flagged`, in the order of the list `order`.
FlagsFor(order, kind, flagged) ==
    LET hits == SelectSeq(order, LAMBDA c : c \in flagged)
    IN  [i \in DOMAIN hits |-> [kind |-> kind, crop |-> hits[i]]]

\* status == "BIAS FLAG"
accuracy_flag(acc, avg_acc) ==
    FLess(acc, FSub(avg_acc, ACCURACY_GAP_THRESHOLD))

\* crop -> [correct, total], and for the reject test [rejected, total], counted
\* over the samples; crop_of[i] is the crop of file_paths[i]
crop_counts(crop_of, hit) ==
    [c \in {crop_of[i] : i \in DOMAIN crop_of} |->
        [hits |-> Cardinality({i \in DOMAIN crop_of : crop_of[i] = c /\ hit[i]}),
         total |-> Cardinality({i \in DOMAIN crop_of : crop_of[i] = c})]] @@ <<>>

\* The "Result:" line printed from gap = max_acc - min_acc
accuracy_result(values) ==
    LET verdict(gap) == IF FLeq(gap, ACCURACY_GAP_THRESHOLD) THEN "PASS" ELSE "BIAS CONCERN"
    IN  verdict(FSub(FMax(values), FMin(values)))

\* The loop over sorted(crop_acc, key=crop_acc.get), the printed result and the
\* return
accuracy_flags(crop_acc, order, avg_acc) ==
    <<crop_acc,
      FlagsFor(SortedByKey(order, crop_acc, FALSE), "accuracy below average",
               {c \in DOMAIN crop_acc : accuracy_flag(crop_acc[c], avg_acc)}),
      accuracy_result({crop_acc[c] : c \in DOMAIN crop_acc})>>

accuracy_average(crop_acc, order) ==
    accuracy_flags(crop_acc, order,
                   FDiv(FSum([i \in DOMAIN order |-> crop_acc[order[i]]]),
                        FOfInt(Len(order))))

accuracy_per_crop(crop_stats) ==
    LET enough == {c \in DOMAIN crop_stats : crop_stats[c].total >= MinCropSamples}
    IN  IF enough = {} THEN << <<>>, <<>>, "" >>
        ELSE accuracy_average(
                 [c \in enough |->
                     FDiv(FOfInt(crop_stats[c].hits), FOfInt(crop_stats[c].total))] @@ <<>>,
                 SortedNames(enough))

\* <<crop_acc, flags>>, and the "Result:" line printed
test_crop_accuracy_parity(true_classes, pred_classes, file_paths, class_names) ==
    accuracy_per_crop(
        crop_counts([i \in DOMAIN file_paths |->
                        extract_crop_from_filename(file_paths[i])] @@ <<>>,
                    [i \in DOMAIN file_paths |-> pred_classes[i] = true_classes[i]]))

four_fifths_violation(ratio) == FLess(ratio, DISPARATE_IMPACT_THRESHOLD)

\* Mutant of reject_rate_flag: the number of samples is not looked at.
reject_rate_flag_any_total(ratio, total) == FLess(FOfInt(2), ratio)

\* status == "BIAS FLAG"
reject_rate_flag(ratio, total) == FLess(FOfInt(2), ratio) /\ total >= MinFlagSamples

\* The two flag loops and the return
reject_flags(crop_reject, rate, order, avg_reject, min_reject, max_reject, acceptance_rates, max_acceptance) ==
    LET ratio(c) == IF FLess(FZero, avg_reject) THEN FDiv(rate[c], avg_reject)
                    ELSE FOfInt(1)
        twice(c) == reject_rate_flag(ratio(c), crop_reject[c].total)
        di_violation(c) ==
            /\ FLess(FZero, max_acceptance)
            /\ four_fifths_violation(FDiv(acceptance_rates[c], max_acceptance))
    IN  <<rate,
          FlagsFor(SortedByKey(order, rate, TRUE), "reject rate above twice the average",
                   {c \in DOMAIN rate : twice(c)})
          \o (IF FLess(FZero, max_reject) /\ FLeq(FZero, min_reject)
              THEN FlagsFor(order, "4/5ths rule violation",
                            {c \in DOMAIN rate : di_violation(c)})
              ELSE <<>>)>>

reject_acceptance(crop_reject, crop_reject_rate, order, rates, acceptance_rates) ==
    reject_flags(crop_reject, crop_reject_rate, order,
                 FDiv(FSum([i \in DOMAIN order |-> crop_reject_rate[order[i]]]),
                      FOfInt(Len(order))),
                 FMin(rates), FMax(rates),
                 acceptance_rates,
                 FMax({acceptance_rates[c] : c \in DOMAIN acceptance_rates}))

reject_averages(crop_reject, crop_reject_rate, order) ==
    reject_acceptance(crop_reject, crop_reject_rate, order,
                      {crop_reject_rate[c] : c \in DOMAIN crop_reject_rate},
                      [c \in DOMAIN crop_reject_rate |->
                          FSub(FOfInt(1), crop_reject_rate[c])] @@ <<>>)

reject_rate_per_crop(crop_reject, seen) ==
    LET enough(c) == crop_reject[c].total >= MinCropSamples
        order == SelectSeq(seen, enough)
    IN  IF order = <<>> THEN << <<>>, <<>> >>
        ELSE reject_averages(
                 crop_reject,
                 [c \in {order[i] : i \in DOMAIN order} |->
                     FDiv(FOfInt(crop_reject[c].hits), FOfInt(crop_reject[c].total))] @@ <<>>,
                 order)

reject_counts(reject_idx, pred_classes, crop_of) ==
    IF reject_idx = -1 THEN << <<>>, <<>> >>
    ELSE reject_rate_per_crop(
             crop_counts(crop_of, [i \in DOMAIN crop_of |-> pred_classes[i] = reject_idx]),
             FirstSeen(crop_of))

\* <<crop_reject_rate, flags>>
test_reject_rate_parity(true_classes, pred_classes, file_paths, class_names) ==
    reject_counts(
        IndexOf(class_names, Name.reject), pred_classes,
        [i \in DOMAIN file_paths |-> extract_crop_from_filename(file_paths[i])] @@ <<>>)

\* fpr of the grade with index grade_idx: fp / (fp + tn) if (fp + tn) > 0 else 0
grade_fpr_of(true_classes, pred_classes, grade_idx) ==
    LET others == {i \in DOMAIN true_classes : true_classes[i] # grade_idx}
        rate(fp, tn) == IF fp + tn > 0 THEN FDiv(FOfInt(fp), FOfInt(fp + tn)) ELSE FZero
    IN  rate(Cardinality({i \in others : pred_classes[i] = grade_idx}),
             Cardinality({i \in others : pred_classes[i] # grade_idx}))

\* <<grade_fpr, flags>>, and the "Result:" line printed
test_false_positive_rate_parity(true_classes, pred_classes, file_paths, class_names) ==
    LET gapped(grade_fpr, max_fpr, min_fpr) ==
            LET worst == class_names[CHOOSE i \in DOMAIN class_names :
                             /\ grade_fpr[class_names[i]] = max_fpr
                             /\ \A j \in 1..(i - 1) : grade_fpr[class_names[j]] # max_fpr]
            IN  IF FLess(FPR_GAP_THRESHOLD, FSub(max_fpr, min_fpr))
                THEN <<grade_fpr, <<[kind |-> "FPR gap", crop |-> worst]>>, "BIAS CONCERN">>
                ELSE <<grade_fpr, <<>>, "PASS">>
        ranged(grade_fpr, values) == gapped(grade_fpr, FMax(values), FMin(values))
        filled(grade_fpr) == ranged(grade_fpr, {grade_fpr[g] : g \in DOMAIN grade_fpr})
    IN  filled([g \in {class_names[i] : i \in DOMAIN class_names} |->
                   grade_fpr_of(true_classes, pred_classes, IndexOf(class_names, g))] @@ <<>>)

\* The loop over sorted_misclass[:10]: a flag for each pattern of `top` with
\* rate > 0.5 and total >= 5
misclass_flags(misclass, total_by_combo, top) ==
    LET rated(count, total, half) ==
            /\ FLess(half, IF total > 0 THEN FDiv(FOfInt(count), FOfInt(total)) ELSE FZero)
            /\ total >= MinComboSamples
        listed(hits) ==
            <<misclass,
              [i \in DOMAIN hits |-> [kind |-> "misclass rate", crop |-> hits[i][1],
                                      true_grade |-> hits[i][2], pred_grade |-> hits[i][3]]]>>
        looped(half) ==
            listed(SelectSeq(top, LAMBDA k :
                       rated(misclass[k], total_by_combo[<<k[1], k[2]>>], half)))
    IN  looped(FLit(1, 2))

\* sorted(misclass.items(), key=lambda x: x[1], reverse=True)[:10], the keys:
\* by count, the larger first, equal counts in the order of insertion
sorted_misclass(keys, misclass) ==
    LET rank(j) == Cardinality({h \in DOMAIN keys :
                       \/ misclass[keys[h]] > misclass[keys[j]]
                       \/ misclass[keys[h]] = misclass[keys[j]] /\ h < j})
        sorted == [r \in DOMAIN keys |-> keys[CHOOSE j \in DOMAIN keys : rank(j) = r - 1]]
    IN  SubSeq(sorted, 1, Min2(TOP_PATTERNS, Len(sorted)))

\* <<misclass, flags>>
test_misclassification_patterns(true_classes, pred_classes, file_paths, class_names) ==
    LET counted(sample) ==
            LET missed == SelectSeq(sample, LAMBDA k : k[2] # k[3])
                tabled(keys, misclass, total_by_combo) ==
                    misclass_flags(misclass, total_by_combo, sorted_misclass(keys, misclass))
            IN  tabled(FirstSeen(missed),
                       [k \in {missed[i] : i \in DOMAIN missed} |->
                           Cardinality({i \in DOMAIN missed : missed[i] = k})] @@ <<>>,
                       [c \in {<<sample[i][1], sample[i][2]>> : i \in DOMAIN sample} |->
                           Cardinality({i \in DOMAIN sample :
                               <<sample[i][1], sample[i][2]>> = c})] @@ <<>>)
    IN  counted([i \in DOMAIN file_paths |->
                    <<extract_crop_from_filename(file_paths[i]),
                      class_names[true_classes[i] + 1],
                      class_names[pred_classes[i] + 1]>>] @@ <<>>)

\* np.mean of a non-empty list. The confidences are float32 values in the source;
\* the test sets drawn give every sample of a crop the same confidence, 1/2 or 1,
\* so that each mean and each comparison below is the same in either width.
np_mean(xs) == FDiv(FSum(xs), FOfInt(Len(xs)))

\* <<avg_confs, flags>>
test_confidence_distribution(pred_classes, confs_in, file_paths, class_names) ==
    LET compared(avg_confs, order, overall_mean) ==
            <<avg_confs,
              FlagsFor(order, "confidence below average",
                       {c \in DOMAIN avg_confs :
                           FLess(avg_confs[c], FSub(overall_mean, FLit(15, 100)))})>>
        averaged(avg_confs, order) ==
            IF order = <<>> THEN << <<>>, <<>> >>
            ELSE compared(avg_confs, order,
                          np_mean([i \in DOMAIN order |-> avg_confs[order[i]]]))
        grouped(crop_of) ==
            LET confs(c) ==
                    LET at == SelectSeq([i \in DOMAIN crop_of |-> i],
                                        LAMBDA i : crop_of[i] = c)
                    IN  [j \in DOMAIN at |-> confs_in[at[j]]]
                enough == {c \in {crop_of[i] : i \in DOMAIN crop_of} :
                              Len(confs(c)) >= MinConfSamples}
            IN  averaged([c \in enough |-> np_mean(confs(c))] @@ <<>>, SortedNames(enough))
    IN  grouped([i \in DOMAIN file_paths |->
                    extract_crop_from_filename(file_paths[i])] @@ <<>>)

\* report['pass'] of generate_report(flag_list, ...): total_flags == 0
generate_report_pass(flag_list) == Len(flag_list) = 0

BiasResult(out) ==
    /\ bias_pc = "ready"
    /\ crop_result' = out[1]
    /\ flags' = out[2]
    /\ result_line' = (IF Len(out) >= 3 THEN out[3] ELSE "")
    /\ bias_pc' = "returned"
    /\ UNCHANGED <<test_set, confidences, all_flags, main_locals, report>>

RunAccuracyParity ==
    BiasResult(test_crop_accuracy_parity(
                   [i \in DOMAIN test_set |-> test_set[i].true_class],
                   [i \in DOMAIN test_set |-> test_set[i].pred_class],
                   [i \in DOMAIN test_set |-> test_set[i].file_path],
                   BiasClassNames))

RunRejectParity ==
    BiasResult(test_reject_rate_parity(
                   [i \in DOMAIN test_set |-> test_set[i].true_class],
                   [i \in DOMAIN test_set |-> test_set[i].pred_class],
                   [i \in DOMAIN test_set |-> test_set[i].file_path],
                   BiasClassNames))

RunFprParity ==
    BiasResult(test_false_positive_rate_parity(
                   [i \in DOMAIN test_set |-> test_set[i].true_class],
                   [i \in DOMAIN test_set |-> test_set[i].pred_class],
                   [i \in DOMAIN test_set |-> test_set[i].file_path],
                   BiasClassNames))

RunMisclassificationPatterns ==
    BiasResult(test_misclassification_patterns(
                   [i \in DOMAIN test_set |-> test_set[i].true_class],
                   [i \in DOMAIN test_set |-> test_set[i].pred_class],
                   [i \in DOMAIN test_set |-> test_set[i].file_path],
                   BiasClassNames))

\* The test samples of one true grade: counts[p + 1] of them predicted as class p.
GradeSamples(crop, true_class, counts) ==
    LET block(p) ==
            [i \in 1..counts[p + 1] |->
                [file_path |-> Name.test \o <<Chr_slash>> \o BiasClassNames[true_class + 1]
                               \o <<Chr_slash>>
                               \o dest_name(crop, BiasClassNames[true_class + 1], Name.test,
                                            100 * p + i - 1, Name.jpg),
                 true_class |-> true_class,
                 pred_class |-> p]]
    IN  block(0) \o block(1) \o block(2) \o block(3)

\* Per true grade: no sample, or MaxPerGrade samples predicted in any way.
FprProfiles ==
    { c \in [1..Len(BiasClassNames) -> 0..MaxPerGrade] :
        c[1] + c[2] + c[3] + c[4] \in {0, MaxPerGrade} }

BiasInit(profiles) ==
    /\ ServerOff /\ SplitOff /\ WeightsOff /\ PipeOff
    /\ bias_pc = "ready"
    /\ \E ps \in [1..3 -> profiles] : test_set = TestSetOf(ps)
    /\ crop_result = <<>>
    /\ flags = <<>>
    /\ result_line = ""
    /\ ReportOff

InitAccuracy == BiasInit(AccuracyProfiles)
NextAccuracy == RunAccuracyParity /\ UNCHANGED <<serverVars, splitVars, weightVars, pipeVars>>
SpecAccuracy == InitAccuracy /\ [][NextAccuracy]_vars

InitReject == BiasInit(RejectProfiles)
NextReject == RunRejectParity /\ UNCHANGED <<serverVars, splitVars, weightVars, pipeVars>>
SpecReject == InitReject /\ [][NextReject]_vars

\* Test 3 on test sets whose samples are of the first two grades.
InitFpr ==
    /\ ServerOff /\ SplitOff /\ WeightsOff /\ PipeOff
    /\ bias_pc = "ready"
    /\ \E c1, c2 \in FprProfiles :
           test_set = GradeSamples(BiasCrops[1], 0, c1) \o GradeSamples(BiasCrops[2], 1, c2)
    /\ crop_result = <<>>
    /\ flags = <<>>
    /\ result_line = ""
    /\ ReportOff
NextFpr == RunFprParity /\ UNCHANGED <<serverVars, splitVars, weightVars, pipeVars>>
SpecFpr == InitFpr /\ [][NextFpr]_vars

\* The (true grade, crop) combinations of the test sets of test 5, in the order
\* of test_ds.file_paths: by class directory, then by file name.
PatternCombos ==
    << <<0, BiasCrops[1]>>, <<0, BiasCrops[2]>>, <<1, BiasCrops[1]>>, <<1, BiasCrops[2]>>,
       <<2, BiasCrops[1]>>, <<2, BiasCrops[2]>> >>

\* The samples of one combination, as <<predicted right, predicted the next
\* grade, predicted the grade after it>>.
PatternShapes == { <<0, 0, 0>>, <<2, 3, 0>>, <<0, 3, 3>>, <<1, 3, 0>> }

PatternSamples(combo, shape) ==
    GradeSamples(combo[2], combo[1],
                 [p \in 1..Len(BiasClassNames) |->
                     IF p - 1 = combo[1] THEN shape[1]
                     ELSE IF p - 1 = (combo[1] + 1) % Len(BiasClassNames) THEN shape[2]
                     ELSE IF p - 1 = (combo[1] + 2) % Len(BiasClassNames) THEN shape[3]
                     ELSE 0])

InitPatterns ==
    /\ ServerOff /\ SplitOff /\ WeightsOff /\ PipeOff
    /\ bias_pc = "ready"
    /\ \E f \in [DOMAIN PatternCombos -> PatternShapes] :
           test_set = PatternSamples(PatternCombos[1], f[1]) \o PatternSamples(PatternCombos[2], f[2])
                      \o PatternSamples(PatternCombos[3], f[3]) \o PatternSamples(PatternCombos[4], f[4])
                      \o PatternSamples(PatternCombos[5], f[5]) \o PatternSamples(PatternCombos[6], f[6])
    /\ crop_result = <<>>
    /\ flags = <<>>
    /\ result_line = ""
    /\ ReportOff
NextPatterns ==
    RunMisclassificationPatterns /\ UNCHANGED <<serverVars, splitVars, weightVars, pipeVars>>
SpecPatterns == InitPatterns /\ [][NextPatterns]_vars

(***************************************************************************)
(* Claims about bias_test.py                                               *)
(***************************************************************************)
\* Per crop of the test set: its samples, those predicted right, those predicted
\* 'reject'.
CropStats ==
    LET crop_of == [i \in DOMAIN test_set |->
                       extract_crop_from_filename(test_set[i].file_path)]
        of(c) == {i \in DOMAIN test_set : crop_of[i] = c}
    IN  [c \in {crop_of[i] : i \in DOMAIN test_set} |->
            [total |-> Cardinality(of(c)),
             correct |-> Cardinality({i \in of(c) :
                             test_set[i].pred_class = test_set[i].true_class}),
             rejected |-> Cardinality({i \in of(c) :
                              test_set[i].pred_class = IndexOf(BiasClassNames, Name.reject)})]]
Considered(stats) == {c \in DOMAIN stats : stats[c].total >= 5}
FlaggedCrops(kind) == {flags[i].crop : i \in {j \in DOMAIN flags : flags[j].kind = kind}}

RECURSIVE ProductOver(_, _)
ProductOver(f, S) ==
    IF S = {} THEN 1
    ELSE LET x == CHOOSE y \in S : TRUE IN f[x] * ProductOver(f, S \ {x})

\* accuracy(c) < mean accuracy - 15/100, over the considered crops, in exact
\* arithmetic: every accuracy is a multiple of 1/D, D the product of the totals.
MoreThanGapBelowMean(stats, c) ==
    LET crops == Considered(stats)
        k == Cardinality(crops)
        D == ProductOver([x \in crops |-> stats[x].total], crops)
        num == [x \in crops |-> stats[x].correct * (D \div stats[x].total)]
    IN  100 * k * num[c] < 100 * SumOver(num, crops) - 15 * k * D

\* C9 (as stated): test_crop_accuracy_parity considers the crops with at least 5
\* test samples and flags a crop exactly when its accuracy is more than 0.15 below
\* the unweighted mean accuracy of the considered crops; when no crop has 5 samples
\* it returns no accuracies and no flags.
C9_AccuracyFlags ==
    bias_pc = "returned" =>
        LET stats == CropStats
            flagged == FlaggedCrops("accuracy below average")
        IN  /\ DOMAIN crop_result = Considered(stats)
            /\ flagged \subseteq Considered(stats)
            /\ \A c \in Considered(stats) : c \in flagged <=> MoreThanGapBelowMean(stats, c)
            /\ (Considered(stats) = {} => crop_result = <<>> /\ flags = <<>>)

\* C20 (as stated): Test 1's verdict and the final verdict agree: whenever
\* test_crop_accuracy_parity prints 'BIAS CONCERN' it also returns at least one
\* flag, so a report built from its flags has pass = false; and whenever it prints
\* 'PASS' it returns no flag.
C20_VerdictsAgree ==
    bias_pc = "returned" =>
        /\ (result_line = "BIAS CONCERN" =>
                flags # <<>> /\ ~generate_report_pass(flags))
        /\ (result_line = "PASS" => flags = <<>> /\ generate_report_pass(flags))

\* acceptance(c) / highest acceptance < 4/5, in exact arithmetic
BelowFourFifths(stats, c) ==
    LET accepted(x) == stats[x].total - stats[x].rejected
        best == CHOOSE b \in Considered(stats) : \A x \in Considered(stats) :
                    accepted(x) * stats[b].total <= accepted(b) * stats[x].total
    IN  /\ accepted(best) > 0
        /\ 5 * accepted(c) * stats[best].total < 4 * accepted(best) * stats[c].total

\* C10 (as stated): among the crops with at least 5 samples, and when the highest
\* acceptance rate is positive, test_reject_rate_parity gives a crop a '4/5ths rule
\* violation' flag exactly when its acceptance rate divided by the highest
\* acceptance rate of any crop is below 0.8.
C10_FourFifthsFlags ==
    bias_pc = "returned" =>
        LET stats == CropStats
            flagged == FlaggedCrops("4/5ths rule violation")
        IN  /\ flagged \subseteq Considered(stats)
            /\ \A c \in Considered(stats) : c \in flagged <=> BelowFourFifths(stats, c)

\* reject rate(c) > 2 * average reject rate of the considered crops, in exact
\* arithmetic: every rate is a multiple of 1/D, D the product of the totals.
MoreThanTwiceAverage(stats, c) ==
    LET crops == Considered(stats)
        D == ProductOver([x \in crops |-> stats[x].total], crops)
        num == [x \in crops |-> stats[x].rejected * (D \div stats[x].total)]
    IN  Cardinality(crops) * num[c] > 2 * SumOver(num, crops)

MaxTestImages == 3

\* CONFIG['class_names'] of evaluate.py
evaluate_class_names == <<Name.premium, Name.grade_a, Name.grade_b, Name.reject>>

\* train_ds.class_names: image_dataset_from_directory names the classes after
\* the subdirectories of the training directory, in alphanumerical order, and
\* output i of the trained model is the class of that index.
trained_class_names == SortedNames(TrainDirNames)

\* flow_from_directory(test_dir, classes=..., shuffle=False).classes: the index
\* of each image's directory in `classes`, directory after directory.
RECURSIVE flow_from_directory(_, _, _)
flow_from_directory(dir, classes, k) ==
    IF k > Len(classes) THEN <<>>
    ELSE [i \in 1..dir[classes[k]] |-> k - 1] \o flow_from_directory(dir, classes, k + 1)

create_test_generator ==
    /\ eval_pc = "ready"
    /\ test_gen_classes' = flow_from_directory(test_dir, evaluate_class_names, 1)
    /\ eval_pc' = "generated"
    /\ UNCHANGED <<HAS_SKLEARN, test_dir, predicted_classes, cm>>

\* evaluate_model: one output index of the model for every test image.
evaluate_model ==
    /\ eval_pc = "generated"
    /\ predicted_classes' \in
           [DOMAIN test_gen_classes -> 0..(Len(trained_class_names) - 1)]
    /\ eval_pc' = "predicted"
    /\ UNCHANGED <<HAS_SKLEARN, test_dir, test_gen_classes, cm>>

\* Mutant of count_pairs: row and column exchanged.
RECURSIVE count_pairs_transposed(_, _, _, _)
count_pairs_transposed(m, t, p, i) ==
    IF i > Min2(Len(t), Len(p)) THEN m
    ELSE count_pairs_transposed([m EXCEPT ![p[i]][t[i]] = @ + 1], t, p, i + 1)

\* for t, p in zip(true_classes, predicted_classes): cm[t, p] += 1
RECURSIVE count_pairs(_, _, _, _)
count_pairs(m, t, p, i) ==
    IF i > Min2(Len(t), Len(p)) THEN m
    ELSE count_pairs([m EXCEPT ![t[i]][p[i]] = @ + 1], t, p, i + 1)

\* sklearn.metrics.confusion_matrix(t, p): rows and columns are the labels that
\* occur in t or p, in ascending order.
sklearn_confusion_matrix(t, p) ==
    LET labels == {t[i] : i \in DOMAIN t} \cup {p[i] : i \in DOMAIN p}
        rank(x) == Cardinality({y \in labels : y < x})
    IN  [a \in 0..(Cardinality(labels) - 1) |->
            [b \in 0..(Cardinality(labels) - 1) |->
                Cardinality({i \in DOMAIN t : rank(t[i]) = a /\ rank(p[i]) = b})]]

compute_confusion_matrix ==
    /\ eval_pc = "predicted"
    /\ cm' = IF HAS_SKLEARN
             THEN sklearn_confusion_matrix(test_gen_classes, predicted_classes)
             ELSE LET n_classes == Len(evaluate_class_names)
                  IN  count_pairs([t \in 0..(n_classes - 1) |->
                                      [p \in 0..(n_classes - 1) |-> 0]],
                                  test_gen_classes, predicted_classes, 1)
    /\ eval_pc' = "returned"
    /\ UNCHANGED <<HAS_SKLEARN, test_dir, test_gen_classes, predicted_classes>>

InitEvaluate ==
    /\ ServerOff /\ SplitOff /\ WeightsOff /\ BiasOff /\ HandOff /\ PrepOff
    /\ eval_pc = "ready"
    /\ HAS_SKLEARN \in BOOLEAN
    /\ test_dir \in { d \in [TrainDirNames -> 0..MaxTestImages] :
                        SumOver(d, TrainDirNames) <= MaxTestImages }
    /\ test_gen_classes = <<>>
    /\ predicted_classes = <<>>
    /\ cm = <<>>

NextEvaluate ==
    \/ create_test_generator /\ UNCHANGED <<serverVars, splitVars, weightVars, biasVars, handVars, prepVars>>
    \/ evaluate_model /\ UNCHANGED <<serverVars, splitVars, weightVars, biasVars, handVars, prepVars>>
    \/ compute_confusion_matrix /\ UNCHANGED <<serverVars, splitVars, weightVars, biasVars, handVars, prepVars>>

SpecEvaluate == InitEvaluate /\ [][NextEvaluate]_vars

(***************************************************************************)
(* Claims about evaluate.py                                                *)
(***************************************************************************)
PairsAt(t, p) ==
    {i \in DOMAIN test_gen_classes :
        test_gen_classes[i] = t /\ predicted_classes[i] = p}

\* C12: without sklearn, compute_confusion_matrix returns an n x n matrix, n the
\* number of class names, whose entry [t][p] is the number of samples of true
\* class t predicted as p; the entries sum to the number of samples, row t sums
\* to the number of samples of true class t, and the diagonal sums to the number
\* of correct predictions.
C12_ConfusionCounts ==
    (eval_pc = "returned" /\ ~HAS_SKLEARN) =>
        LET idx == 0..(Len(evaluate_class_names) - 1)
            row(t) == SumOver(cm[t], idx)
        IN  /\ DOMAIN cm = idx
            /\ \A t \in idx : DOMAIN cm[t] = idx
            /\ \A t, p \in idx : cm[t][p] = Cardinality(PairsAt(t, p))
            /\ SumOver([t \in idx |-> row(t)], idx) = Len(test_gen_classes)
            /\ \A t \in idx :
                   row(t) = Cardinality({i \in DOMAIN test_gen_classes :
                                            test_gen_classes[i] = t})
            /\ SumOver([t \in idx |-> cm[t][t]], idx)
                   = Cardinality({i \in DOMAIN test_gen_classes :
                                     test_gen_classes[i] = predicted_classes[i]})

\* C12 witness: a matrix was counted without sklearn over several samples, some
\* predicted right and some wrong.
C12_Witness ==
    /\ eval_pc = "returned" /\ ~HAS_SKLEARN
    /\ Len(test_gen_classes) = MaxTestImages
    /\ \E i, j \in DOMAIN test_gen_classes :
           /\ test_gen_classes[i] = predicted_classes[i]
           /\ test_gen_classes[j] # predicted_classes[j]
           /\ cm[test_gen_classes[j]][predicted_classes[j]] >= 1

\* server.CLASS_NAMES as text
GradeText ==
    [grade_a |-> Name.grade_a, grade_b |-> Name.grade_b,
     premium |-> Name.premium, reject |-> Name.reject]

\* The indices the evaluation handled: those of the images' directories and
\* those the model put out.
EvaluatedIndices ==
    {test_gen_classes[i] : i \in DOMAIN test_gen_classes}
        \cup {predicted_classes[i] : i \in DOMAIN predicted_classes}

\* C18 (as stated): index i denotes the same grade in the trained model's output
\* (alphabetical order of the grade directories), in compute_class_weights, in
\* server.CLASS_NAMES and in evaluate.py's CONFIG['class_names'], so no index
\* the evaluation handles is read as another grade than it was trained for.
C18_SameIndexEverywhere ==
    eval_pc = "returned" =>
        \A i \in EvaluatedIndices :
            /\ SortedNames(TrainDirNames)[i + 1] = trained_class_names[i + 1]
            /\ GradeText[CLASS_NAMES[i + 1]] = trained_class_names[i + 1]
            /\ evaluate_class_names[i + 1] = trained_class_names[i + 1]

(***************************************************************************)
(* train.py, then evaluate.py: the hand-off of the trained model           *)
(***************************************************************************)
MaxTrainRuns == 2

\* datetime.now().strftime("%Y%m%d-%H%M%S") at second t < 60 of 2026-01-01
strftime(t) == Str.day \o Pad5(t)

\* The files train.main writes into models/quality_grading for one timestamp:
\* the two checkpoints (each saved at least after its first epoch), the final
\* model, the configuration and the two TFLite conversions.
train_outputs(timestamp) ==
    [models |-> { Str.best_model_ \o timestamp \o Str.keras,
                  Str.finetuned_model_ \o timestamp \o Str.keras,
                  Str.final_model_ \o timestamp \o Str.keras },
     others |-> { Str.config_ \o timestamp \o Str.json,
                  Str.quality_grading_ \o timestamp \o Str.tflite,
                  Str.quality_grading_ \o Str.latest \o Str.tflite }]

\* A file written at time t replaces a file of the same name.
write_files(dir, names, t) ==
    {f \in dir : f.name \notin names} \cup {[name |-> n, st_mtime |-> t] : n \in names}

\* The program that ran last ("" before any).
last_program == IF programs_run = <<>> THEN "" ELSE programs_run[Len(programs_run)]

train_main ==
    /\ last_program # "evaluate.py"
    /\ Len(SelectSeq(programs_run, LAMBDA p : p = "train.py")) < MaxTrainRuns
    /\ LET out == train_outputs(strftime(now))
       IN  /\ quality_grading' =
                  write_files(quality_grading, out.models \cup out.others, now + 1)
           /\ saved' = saved \cup out.models
    /\ now' = now + 2
    /\ programs_run' = Append(programs_run, "train.py")
    /\ UNCHANGED latest

\* max(h5_files, key=st_mtime): a file of the greatest modification time (which
\* of several depends on the order of the directory listing).
load_latest_model_choices(dir) ==
    LET final == {f \in dir : GlobMatch(f.name, Str.final_model_, Str.h5)}
        h5_files == IF final = {} THEN {f \in dir : GlobMatch(f.name, <<>>, Str.h5)}
                    ELSE final
    IN  IF h5_files = {} THEN {[raised |-> "FileNotFoundError", name |-> NoneModel]}
        ELSE {[raised |-> "", name |-> f.name] :
                 f \in {g \in h5_files : \A h \in h5_files : h.st_mtime <= g.st_mtime}}

load_latest_model ==
    /\ last_program # "evaluate.py"
    /\ latest' \in load_latest_model_choices(quality_grading)
    /\ programs_run' = Append(programs_run, "evaluate.py")
    /\ UNCHANGED <<now, quality_grading, saved>>

\* Model files left in the directory by earlier work.
EarlierModels ==
    { Str.model \o Str.h5, Str.final_model_ \o Str.v1 \o Str.h5,
      Str.final_model_ \o Str.v1 \o Str.keras, Str.model \o Str.keras }

InitHandOff ==
    /\ ServerOff /\ SplitOff /\ WeightsOff /\ BiasOff /\ EvalOff /\ PrepOff
    /\ programs_run = <<>>
    /\ now \in 1..2
    /\ \E names \in SUBSET EarlierModels :
           quality_grading = write_files({}, names, 0)
    /\ saved = {}
    /\ latest = [raised |-> "", name |-> NoneModel]

NextHandOff ==
    \/ train_main /\ UNCHANGED <<serverVars, splitVars, weightVars, biasVars, evalVars, prepVars>>
    \/ load_latest_model /\ UNCHANGED <<serverVars, splitVars, weightVars, biasVars, evalVars, prepVars>>

SpecHandOff == InitHandOff /\ [][NextHandOff]_vars

\* C13 (as stated): once train.py has completed a run, evaluate.py's
\* load_latest_model loads the most recent model that training saved and does
\* not raise FileNotFoundError.
C13_LoadsTrainedModel ==
    (/\ last_program = "evaluate.py"
     /\ \E i \in DOMAIN programs_run : programs_run[i] = "train.py")
        => /\ latest.raised = ""
           /\ latest.name \in saved
           /\ \A f \in quality_grading :
                  f.name \in saved =>
                      \E g \in quality_grading :
                          g.name = latest.name /\ f.st_mtime <= g.st_mtime

(***************************************************************************)
(* Claims about server.py: infer_defects                                   *)
(***************************************************************************)
\* C14 (as stated): the defects of a successful /predict response are those
\* infer_defects gives for the crop, the grade and the probabilities, and which
\* defects are reported depends on the probabilities as well as on the grade:
\* some other output of the model with the same top class gives other defects.
C14_DefectsFollowProbabilities ==
    (/\ response.endpoint = "predict" /\ response.status = 200
     /\ response.body.grade # "Premium") =>
        LET crop_type == IF request.body.crop = NoField THEN "tomato"
                         ELSE request.body.crop
            grade == response.body.grade
        IN  /\ response.body.defects = infer_defects(crop_type, grade, response.output)
            /\ \E q \in ProbVectors :
                   /\ argmax(q) = argmax(response.output)
                   /\ infer_defects(crop_type, grade, q) # response.body.defects

(***************************************************************************)
(* prepare_data.py: main                                                   *)
(***************************************************************************)
MaxDirs == 2
MaxImages == 2
SAMPLE_LIMIT == 200

Label ==
    [ Fresh |->   \* "Fresh"
          <<70, 114, 101, 115, 104>>,
      Rotten |->   \* "Rotten"
          <<82, 111, 116, 116, 101, 110>>,
      Non |->   \* "Non"
          <<78, 111, 110>>,
      Non_fresh |->   \* "Non fresh"
          <<78, 111, 110, 32, 102, 114, 101, 115, 104>>,
      Non_Fresh |->   \* "Non Fresh"
          <<78, 111, 110, 32, 70, 114, 101, 115, 104>>,
      space |->   \* " "
          <<32>>,
      spinach |->   \* "spinach"
          <<115, 112, 105, 110, 97, 99, 104>>,
      Bell_Pepper |->   \* "1. Bell Pepper"
          <<49, 46, 32, 66, 101, 108, 108, 32, 80, 101, 112, 112, 101, 114>>,
      Chile_Pepper |->   \* "2. Chile Pepper"
          <<50, 46, 32, 67, 104, 105, 108, 101, 32, 80, 101, 112, 112, 101, 114>>,
      Tomato4 |->   \* "4. Tomato"
          <<52, 46, 32, 84, 111, 109, 97, 116, 111>>,
      Sweet_Corn |->   \* "Sweet Corn"
          <<83, 119, 101, 101, 116, 32, 67, 111, 114, 110>>,
      Ripe |->   \* "Ripe"
          <<82, 105, 112, 101>>,
      Unripe |->   \* "Unripe"
          <<85, 110, 114, 105, 112, 101>>,
      Mouldy |->   \* "Mouldy"
          <<77, 111, 117, 108, 100, 121>>,
      FreshTomato |->   \* "FreshTomato"
          <<70, 114, 101, 115, 104, 84, 111, 109, 97, 116, 111>>,
      RottenTomato |->   \* "RottenTomato"
          <<82, 111, 116, 116, 101, 110, 84, 111, 109, 97, 116, 111>>,
      FreshGrape |->   \* "FreshGrape"
          <<70, 114, 101, 115, 104, 71, 114, 97, 112, 101>>,
      Other |->   \* "Other"
          <<79, 116, 104, 101, 114>>,
      Red_Spinach_Fresh |->   \* "Red Spinach Fresh"
          <<82, 101, 100, 32, 83, 112, 105, 110, 97, 99, 104, 32, 70, 114, 101, 115, 104>>,
      Red_Spinach_Non_Fresh |->   \* "Red Spinach Non Fresh"
          <<82, 101, 100, 32, 83, 112, 105, 110, 97, 99, 104, 32, 78, 111, 110, 32, 70, 114, 101, 115, 104>>,
      Green_Spinach_Fresh |->   \* "Green Spinach Fresh"
          <<71, 114, 101, 101, 110, 32, 83, 112, 105, 110, 97, 99, 104, 32, 70, 114, 101, 115, 104>>,
      Green_Spinach_Non_fresh |->   \* "Green Spinach Non fresh"
          <<71, 114, 101, 101, 110, 32, 83, 112, 105, 110, 97, 99, 104, 32, 78, 111, 110, 32, 102, 114, 101, 115, 104>>,
      Stems |->   \* "Stems"
          <<83, 116, 101, 109, 115>>,
      Tomato |->   \* "Tomato"
          <<84, 111, 109, 97, 116, 111>>,
      Capsicum |->   \* "Capsicum"
          <<67, 97, 112, 115, 105, 99, 117, 109>>,
      Brinjal |->   \* "Brinjal"
          <<66, 114, 105, 110, 106, 97, 108>>,
      Cabbage |->   \* "Cabbage"
          <<67, 97, 98, 98, 97, 103, 101>>,
      Carrot |->   \* "Carrot"
          <<67, 97, 114, 114, 111, 116>>,
      Potato |->   \* "Potato"
          <<80, 111, 116, 97, 116, 111>> ]

GRADE_MAPPING ==
       (<<82, 105, 112, 101>> :> Name.premium)   \* "Ripe"
    @@ (<<85, 110, 114, 105, 112, 101>> :> Name.grade_a)   \* "Unripe"
    @@ (<<79, 108, 100>> :> Name.grade_b)   \* "Old"
    @@ (<<68, 114, 105, 101, 100>> :> Name.reject)   \* "Dried"
    @@ (<<68, 97, 109, 97, 103, 101, 100>> :> Name.reject)   \* "Damaged"
    @@ (<<70, 114, 101, 115, 104>> :> Name.premium)   \* "Fresh"
    @@ (<<102, 114, 101, 115, 104>> :> Name.premium)   \* "fresh"
    @@ (<<70, 114, 101, 115, 104, 65, 112, 112, 108, 101>> :> Name.premium)   \* "FreshApple"
    @@ (<<70, 114, 101, 115, 104, 66, 97, 110, 97, 110, 97>> :> Name.premium)   \* "FreshBanana"
    @@ (<<70, 114, 101, 115, 104, 77, 97, 110, 103, 111>> :> Name.premium)   \* "FreshMango"
    @@ (<<70, 114, 101, 115, 104, 79, 114, 97, 110, 103, 101>> :> Name.premium)   \* "FreshOrange"
    @@ (<<70, 114, 101, 115, 104, 80, 111, 116, 97, 116, 111>> :> Name.premium)   \* "FreshPotato"
    @@ (<<70, 114, 101, 115, 104, 84, 111, 109, 97, 116, 111>> :> Name.premium)   \* "FreshTomato"
    @@ (<<82, 111, 116, 116, 101, 110>> :> Name.reject)   \* "Rotten"
    @@ (<<114, 111, 116, 116, 101, 110>> :> Name.reject)   \* "rotten"
    @@ (<<82, 111, 116, 116, 101, 110, 65, 112, 112, 108, 101>> :> Name.reject)   \* "RottenApple"
    @@ (<<82, 111, 116, 116, 101, 110, 66, 97, 110, 97, 110, 97>> :> Name.reject)   \* "RottenBanana"
    @@ (<<82, 111, 116, 116, 101, 110, 77, 97, 110, 103, 111>> :> Name.reject)   \* "RottenMango"
    @@ (<<82, 111, 116, 116, 101, 110, 79, 114, 97, 110, 103, 101>> :> Name.reject)   \* "RottenOrange"
    @@ (<<82, 111, 116, 116, 101, 110, 80, 111, 116, 97, 116, 111>> :> Name.reject)   \* "RottenPotato"
    @@ (<<82, 111, 116, 116, 101, 110, 84, 111, 109, 97, 116, 111>> :> Name.reject)   \* "RottenTomato"
    @@ (<<77, 97, 108, 97, 98, 97, 114, 32, 83, 112, 105, 110, 97, 99, 104, 32, 70, 114, 101, 115, 104>> :> Name.premium)   \* "Malabar Spinach Fresh"
    @@ (<<82, 101, 100, 32, 83, 112, 105, 110, 97, 99, 104, 32, 70, 114, 101, 115, 104>> :> Name.premium)   \* "Red Spinach Fresh"
    @@ (<<87, 97, 116, 101, 114, 32, 83, 112, 105, 110, 97, 99, 104, 32, 70, 114, 101, 115, 104>> :> Name.premium)   \* "Water Spinach Fresh"
    @@ (<<77, 97, 108, 97, 98, 97, 114, 32, 83, 112, 105, 110, 97, 99, 104, 32, 78, 111, 110, 32, 102, 114, 101, 115, 104>> :> Name.grade_b)   \* "Malabar Spinach Non fresh"
    @@ (<<82, 101, 100, 32, 83, 112, 105, 110, 97, 99, 104, 32, 78, 111, 110, 32, 70, 114, 101, 115, 104>> :> Name.grade_b)   \* "Red Spinach Non Fresh"
    @@ (<<87, 97, 116, 101, 114, 32, 83, 112, 105, 110, 97, 99, 104, 32, 78, 111, 110, 32, 102, 114, 101, 115, 104>> :> Name.grade_b)   \* "Water Spinach Non fresh"

CROP_MAPPING ==
       (<<49, 46, 32, 66, 101, 108, 108, 32, 80, 101, 112, 112, 101, 114>> :> <<112, 101, 112, 112, 101, 114>>)   \* "1. Bell Pepper": "pepper"
    @@ (<<50, 46, 32, 67, 104, 105, 108, 101, 32, 80, 101, 112, 112, 101, 114>> :> <<112, 101, 112, 112, 101, 114>>)   \* "2. Chile Pepper": "pepper"
    @@ (<<51, 46, 32, 78, 101, 119, 32, 77, 101, 120, 105, 99, 111, 32, 71, 114, 101, 101, 110, 32, 67, 104, 105, 108, 101>> :> <<112, 101, 112, 112, 101, 114>>)   \* "3. New Mexico Green Chile": "pepper"
    @@ (<<52, 46, 32, 84, 111, 109, 97, 116, 111>> :> <<116, 111, 109, 97, 116, 111>>)   \* "4. Tomato": "tomato"
    @@ (<<65, 112, 112, 108, 101>> :> <<97, 112, 112, 108, 101>>)   \* "Apple": "apple"
    @@ (<<66, 97, 110, 97, 110, 97>> :> <<98, 97, 110, 97, 110, 97>>)   \* "Banana": "banana"
    @@ (<<77, 97, 110, 103, 111>> :> <<109, 97, 110, 103, 111>>)   \* "Mango": "mango"
    @@ (<<79, 114, 97, 110, 103, 101>> :> <<111, 114, 97, 110, 103, 101>>)   \* "Orange": "orange"
    @@ (<<80, 111, 116, 97, 116, 111>> :> <<112, 111, 116, 97, 116, 111>>)   \* "Potato": "potato"
    @@ (<<84, 111, 109, 97, 116, 111>> :> <<116, 111, 109, 97, 116, 111>>)   \* "Tomato": "tomato"
    @@ (<<67, 97, 98, 98, 97, 103, 101>> :> <<99, 97, 98, 98, 97, 103, 101>>)   \* "Cabbage": "cabbage"
    @@ (<<67, 97, 114, 114, 111, 116>> :> <<99, 97, 114, 114, 111, 116>>)   \* "Carrot": "carrot"
    @@ (<<67, 97, 112, 115, 105, 99, 117, 109>> :> <<112, 101, 112, 112, 101, 114>>)   \* "Capsicum": "pepper"
    @@ (<<66, 114, 105, 110, 106, 97, 108>> :> <<98, 114, 105, 110, 106, 97, 108>>)   \* "Brinjal": "brinjal"
    @@ (<<67, 97, 117, 108, 105, 102, 108, 111, 119, 101, 114>> :> <<99, 97, 117, 108, 105, 102, 108, 111, 119, 101, 114>>)   \* "Cauliflower": "cauliflower"
    @@ (<<67, 117, 99, 117, 109, 98, 101, 114>> :> <<99, 117, 99, 117, 109, 98, 101, 114>>)   \* "Cucumber": "cucumber"
    @@ (<<82, 97, 100, 105, 115, 104>> :> <<114, 97, 100, 105, 115, 104>>)   \* "Radish": "radish"
    @@ (<<80, 117, 109, 112, 107, 105, 110>> :> <<112, 117, 109, 112, 107, 105, 110>>)   \* "Pumpkin": "pumpkin"
    @@ (<<80, 97, 112, 97, 121, 97>> :> <<112, 97, 112, 97, 121, 97>>)   \* "Papaya": "papaya"
    @@ (<<66, 101, 97, 110>> :> <<98, 101, 97, 110>>)   \* "Bean": "bean"
    @@ (<<66, 105, 116, 116, 101, 114, 95, 71, 111, 117, 114, 100>> :> <<98, 105, 116, 116, 101, 114, 95, 103, 111, 117, 114, 100>>)   \* "Bitter_Gourd": "bitter_gourd"
    @@ (<<66, 111, 116, 116, 108, 101, 95, 71, 111, 117, 114, 100>> :> <<98, 111, 116, 116, 108, 101, 95, 103, 111, 117, 114, 100>>)   \* "Bottle_Gourd": "bottle_gourd"
    @@ (<<66, 114, 111, 99, 99, 111, 108, 105>> :> <<98, 114, 111, 99, 99, 111, 108, 105>>)   \* "Broccoli": "broccoli"
    @@ (<<77, 97, 108, 97, 98, 97, 114, 32, 83, 112, 105, 110, 97, 99, 104>> :> <<115, 112, 105, 110, 97, 99, 104>>)   \* "Malabar Spinach": "spinach"
    @@ (<<82, 101, 100, 32, 83, 112, 105, 110, 97, 99, 104>> :> <<115, 112, 105, 110, 97, 99, 104>>)   \* "Red Spinach": "spinach"
    @@ (<<87, 97, 116, 101, 114, 32, 83, 112, 105, 110, 97, 99, 104>> :> <<115, 112, 105, 110, 97, 99, 104>>)   \* "Water Spinach": "spinach"

\* The first position from i on at which sub occurs in s, 0 if there is none.
RECURSIVE str_find(_, _, _)
str_find(s, sub, i) ==
    IF i + Len(sub) - 1 > Len(s) THEN 0
    ELSE IF SubSeq(s, i, i + Len(sub) - 1) = sub THEN i
    ELSE str_find(s, sub, i + 1)

\* s.replace(old, new)
RECURSIVE str_replace(_, _, _)
str_replace(s, old, new) ==
    LET cut(k) == IF k = 0 THEN s
                  ELSE SubSeq(s, 1, k - 1) \o new
                       \o str_replace(SubSeq(s, k + Len(old), Len(s)), old, new)
    IN  cut(str_find(s, old, 1))

\* d.get(key, default)
dict_get(d, key, default) == IF key \in DOMAIN d THEN d[key] ELSE default

\* The class directories tried, by dataset: [dataset, split, parent, name].
PrepareDirs ==
    { [dataset |-> "VegNet", split |-> "", parent |-> c, name |-> q] :
        c \in {Label.Bell_Pepper, Label.Chile_Pepper, Label.Sweet_Corn},
        q \in {Label.Ripe} }
    \cup { [dataset |-> "VegNet", split |-> "", parent |-> Label.Tomato4, name |-> q] :
             q \in {Label.Unripe, Label.Mouldy} }
    \cup { [dataset |-> "Visual_Dataset", split |-> sp, parent |-> <<>>, name |-> n] :
             sp \in {"Train", "Test"}, n \in {Label.FreshTomato, Label.FreshGrape} }
    \cup { [dataset |-> "Visual_Dataset", split |-> "Train", parent |-> <<>>, name |-> n] :
             n \in {Label.RottenTomato, Label.Unripe, Label.Other} }
    \cup { [dataset |-> "Spinach", split |-> "", parent |-> <<>>, name |-> n] :
             n \in {Label.Red_Spinach_Fresh, Label.Red_Spinach_Non_Fresh,
                    Label.Green_Spinach_Fresh, Label.Green_Spinach_Non_fresh,
                    Label.Rotten, Label.Stems} }
    \cup { [dataset |-> "Vegetable Images", split |-> sp, parent |-> <<>>, name |-> n] :
             sp \in {"train", "test"}, n \in {Label.Tomato} }
    \cup { [dataset |-> "Vegetable Images", split |-> "validation", parent |-> <<>>, name |-> n] :
             n \in {Label.Capsicum, Label.Brinjal} }

\* The listings tried for a class directory: one .jpg file, or MaxImages files
\* with the suffixes .JPG and .bmp in turn; for one directory of the Vegetable
\* Images also SAMPLE_LIMIT and SAMPLE_LIMIT + 1 .jpg files.
DirListings(dir) ==
    { SourceListing(1, <<Name.jpg>>), SourceListing(MaxImages, <<Name.JPG, Name.bmp>>) }
    \cup (IF dir.dataset = "Vegetable Images" /\ dir.split = "train"
          THEN { SourceListing(SAMPLE_LIMIT, <<Name.jpg>>),
                 SourceListing(SAMPLE_LIMIT + 1, <<Name.jpg>>) }
          ELSE {})

\* [f for f in images if f.suffix.lower() in ['.jpg', '.jpeg', '.png']]
image_files(files) ==
    SelectSeq(files, LAMBDA f : LowerText(f.suffix) \in {Name.jpg, Name.jpeg, Name.png})

\* random.sample(images, k): k of the images, here the first or the last k.
random_sample(images, k) ==
    { SubSeq(images, 1, k), SubSeq(images, Len(images) - k + 1, Len(images)) }

\* The directories iterdir() may yield next in a process_* function whose outer
\* loop goes over split_order (over the crop directories for VegNet).
next_dirs(dataset, split_order) ==
    LET mine == {d \in pending : d.dataset = dataset}
        first == {d \in mine : \A e \in mine :
                     IndexOf(split_order, d.split) <= IndexOf(split_order, e.split)}
        open == IF handled = <<>> THEN {}
                ELSE {d \in first : d.parent = handled[Len(handled)].dir.parent
                                    /\ handled[Len(handled)].dir.dataset = dataset}
    IN  IF open # {} THEN open ELSE first

\* One pass of the innermost loop of a process_* function over directory d:
\* skipped when no grade was found (grade <<>>) or no image is left, else
\* copied = copy_images_with_split(images, grade, crop); main_total += copied.
handle_dir(d, images, grade, crop) ==
    /\ pending' = pending \ {d}
    /\ IF grade = <<>> \/ images = <<>>
       THEN /\ handled' = Append(handled, [dir |-> d, grade |-> <<>>, crop |-> <<>>,
                                           count |-> 0])
            /\ UNCHANGED <<main_total, src_files, splits, copied, out_files>>
       ELSE LET call(ends) ==
                    \E kind \in ShuffleKinds, unreadable \in UnreadableSets :
                        split_shuffled(grade, crop, unreadable, Shuffled(images, kind),
                                       ends[1], ends[2])
            IN  /\ call(split_ends(Len(images)))
                /\ main_total' = main_total + copied'
                /\ handled' = Append(handled, [dir |-> d, grade |-> grade, crop |-> crop,
                                               count |-> copied'])
    /\ UNCHANGED <<split_pc, main_pc, evaluate_crops, bias_crops>>

\* A process_* function returns; main goes on.
return_to_main(next_pc) ==
    /\ main_pc' = next_pc
    /\ UNCHANGED <<splitVars, pending, main_total, handled, evaluate_crops, bias_crops>>

\* main up to the first dataset: shutil.rmtree(OUTPUT_DIR), prepare_output_dirs().
main ==
    /\ main_pc = "main"
    /\ out_files' = {}
    /\ main_pc' = "process_vegnet"
    /\ UNCHANGED <<split_pc, src_files, splits, copied, pending, main_total, handled,
                   evaluate_crops, bias_crops>>

process_vegnet ==
    /\ main_pc = "process_vegnet"
    /\ IF next_dirs("VegNet", <<"">>) = {}
       THEN return_to_main("process_visual_dataset")
       ELSE \E d \in next_dirs("VegNet", <<"">>) :
                handle_dir(d, image_files(d.files),
                           dict_get(GRADE_MAPPING, d.name, <<>>),
                           dict_get(CROP_MAPPING, d.parent,
                                    str_replace(LowerText(d.parent), Label.space,
                                                <<Chr_underscore>>)))

process_visual_dataset ==
    /\ main_pc = "process_visual_dataset"
    /\ IF next_dirs("Visual_Dataset", <<"Train", "Test">>) = {}
       THEN return_to_main("process_spinach_dataset")
       ELSE \E d \in next_dirs("Visual_Dataset", <<"Train", "Test">>) :
                LET class_name == d.name
                    mapped == dict_get(GRADE_MAPPING, class_name, <<>>)
                    fresh == str_find(class_name, Label.Fresh, 1) = 1
                    rotten == str_find(class_name, Label.Rotten, 1) = 1
                    grade == IF mapped # <<>> THEN mapped
                             ELSE IF fresh THEN Name.premium
                             ELSE IF rotten THEN Name.reject
                             ELSE <<>>
                    crop == IF mapped # <<>> THEN LowerText(class_name)
                            ELSE IF fresh
                            THEN LowerText(str_replace(class_name, Label.Fresh, <<>>))
                            ELSE IF rotten
                            THEN LowerText(str_replace(class_name, Label.Rotten, <<>>))
                            ELSE <<>>
                IN  handle_dir(d, image_files(d.files), grade, crop)

process_spinach_dataset ==
    /\ main_pc = "process_spinach_dataset"
    /\ IF next_dirs("Spinach", <<"">>) = {}
       THEN return_to_main("process_vegetable_images_for_augmentation")
       ELSE \E d \in next_dirs("Spinach", <<"">>) :
                LET class_name == d.name
                    mapped == dict_get(GRADE_MAPPING, class_name, <<>>)
                    has(sub) == str_find(class_name, sub, 1) # 0
                    grade == IF mapped # <<>> THEN mapped
                             ELSE IF has(Label.Fresh) /\ ~has(Label.Non) THEN Name.premium
                             ELSE IF has(Label.Non_fresh) \/ has(Label.Non_Fresh)
                             THEN Name.grade_b
                             ELSE <<>>
                IN  handle_dir(d, image_files(d.files), grade, Label.spinach)

process_vegetable_images_for_augmentation ==
    /\ main_pc = "process_vegetable_images_for_augmentation"
    /\ LET target_crops == {Label.Cabbage, Label.Carrot, Label.Potato, Label.Tomato,
                            Label.Capsicum}
           dirs == next_dirs("Vegetable Images", <<"train", "test", "validation">>)
       IN  IF dirs = {}
           THEN return_to_main("done")
           ELSE \E d \in dirs :
                    LET images == image_files(d.files)
                    IN  IF d.name \notin target_crops
                        THEN handle_dir(d, <<>>, <<>>, <<>>)
                        ELSE \E taken \in (IF Len(images) > SAMPLE_LIMIT
                                           THEN random_sample(images, SAMPLE_LIMIT)
                                           ELSE {images}) :
                                 handle_dir(d, taken, Name.grade_a,
                                            dict_get(CROP_MAPPING, d.name, LowerText(d.name)))

\* The files of the test split, as the generators of evaluate.py and
\* bias_test.py list them.
test_filenames == {f.name : f \in {g \in out_files : g.dir[1] = Name.test}}

\* evaluate.py, analyze_per_crop_performance: crop = Path(filename).stem.split('_')[0]
analyze_per_crop_performance ==
    /\ main_pc = "done"
    /\ evaluate_crops' = {[name |-> n, crop |-> FirstPart(PathStem(n))] : n \in test_filenames}
    /\ UNCHANGED <<splitVars, main_pc, pending, main_total, handled, bias_crops>>

\* bias_test.py: extract_crop_from_filename over test_ds.file_paths
bias_test_crops ==
    /\ main_pc = "done"
    /\ bias_crops' = {[name |-> n, crop |-> extract_crop_from_filename(n)] : n \in test_filenames}
    /\ UNCHANGED <<splitVars, main_pc, pending, main_total, handled, evaluate_crops>>

\* A file left in the output directory by an earlier run.
StaleFiles ==
    { [dir |-> <<Name.test, Name.reject>>,
       name |-> dest_name(Name.okra, Name.reject, Name.test, 7, Name.png)] }

InitPrepare ==
    /\ ServerOff /\ WeightsOff /\ BiasOff /\ EvalOff /\ HandOff
    /\ split_pc = "idle" /\ src_files = <<>> /\ splits = <<>> /\ copied = 0
    /\ out_files \in SUBSET StaleFiles
    /\ main_pc = "main"
    /\ \E ds \in [1..MaxDirs -> PrepareDirs] :
           \E fs \in [1..MaxDirs -> UNION {DirListings(d) : d \in PrepareDirs}] :
               /\ \A i \in 1..MaxDirs : fs[i] \in DirListings(ds[i])
               /\ \A i, j \in 1..MaxDirs : i < j => (ds[i] # ds[j] \/ fs[i] = fs[j])
               /\ pending = {[dataset |-> ds[i].dataset, split |-> ds[i].split,
                              parent |-> ds[i].parent, name |-> ds[i].name,
                              files |-> fs[i]] : i \in 1..MaxDirs}
    /\ main_total = 0
    /\ handled = <<>>
    /\ evaluate_crops = {}
    /\ bias_crops = {}

NextPrepare ==
    \/ main /\ UNCHANGED <<serverVars, weightVars, biasVars, evalVars, handVars>>
    \/ process_vegnet /\ UNCHANGED <<serverVars, weightVars, biasVars, evalVars, handVars>>
    \/ process_visual_dataset
           /\ UNCHANGED <<serverVars, weightVars, biasVars, evalVars, handVars>>
    \/ process_spinach_dataset
           /\ UNCHANGED <<serverVars, weightVars, biasVars, evalVars, handVars>>
    \/ process_vegetable_images_for_augmentation
           /\ UNCHANGED <<serverVars, weightVars, biasVars, evalVars, handVars>>
    \/ analyze_per_crop_performance
           /\ UNCHANGED <<serverVars, weightVars, biasVars, evalVars, handVars>>
    \/ bias_test_crops /\ UNCHANGED <<serverVars, weightVars, biasVars, evalVars, handVars>>

SpecPrepare == InitPrepare /\ [][NextPrepare]_vars

(***************************************************************************)
(* bias_test.py: main, from the first test to the report                   *)
(***************************************************************************)
\* all_flags.extend(flags)
list_extend_replacing(list, more) == more
list_extend(list, more) == list \o more

\* One test of main: x, flags = test_...(...); all_flags.extend(flags)
main_test(pos, next, local, out) ==
    /\ bias_pc = pos
    /\ crop_result' = out[1]
    /\ flags' = out[2]
    /\ result_line' = (IF Len(out) >= 3 THEN out[3] ELSE "")
    /\ main_locals' = (IF local = "_" THEN main_locals
                       ELSE [main_locals EXCEPT ![local] = out[1]])
    /\ all_flags' = list_extend(all_flags, out[2])
    /\ bias_pc' = next
    /\ UNCHANGED <<test_set, confidences, report>>

true_classes_of(samples) == [i \in DOMAIN samples |-> samples[i].true_class]
pred_classes_of(samples) == [i \in DOMAIN samples |-> samples[i].pred_class]
file_paths_of(samples) == [i \in DOMAIN samples |-> samples[i].file_path]

main_crop_accuracy_parity ==
    main_test("main", "test_2", "crop_acc",
              test_crop_accuracy_parity(true_classes_of(test_set), pred_classes_of(test_set),
                                        file_paths_of(test_set), BiasClassNames))

main_reject_rate_parity ==
    main_test("test_2", "test_3", "reject_rates",
              test_reject_rate_parity(true_classes_of(test_set), pred_classes_of(test_set),
                                      file_paths_of(test_set), BiasClassNames))

main_false_positive_rate_parity ==
    main_test("test_3", "test_4", "grade_fpr",
              test_false_positive_rate_parity(true_classes_of(test_set),
                                              pred_classes_of(test_set),
                                              file_paths_of(test_set), BiasClassNames))

main_confidence_distribution ==
    main_test("test_4", "test_5", "crop_conf",
              test_confidence_distribution(pred_classes_of(test_set), confidences,
                                           file_paths_of(test_set), BiasClassNames))

main_misclassification_patterns ==
    main_test("test_5", "report", "_",
              test_misclassification_patterns(true_classes_of(test_set),
                                              pred_classes_of(test_set),
                                              file_paths_of(test_set), BiasClassNames))

\* generate_report(all_flags, crop_acc, reject_rates, grade_fpr, crop_conf): the
\* report, written to models/quality_grading/bias_report_<timestamp>.json
generate_report ==
    /\ bias_pc = "report"
    /\ report' = [timestamp |-> strftime(now),
                  total_flags |-> Len(all_flags),
                  flags |-> all_flags,
                  pass |-> generate_report_pass(all_flags),
                  crop_accuracy |-> main_locals.crop_acc,
                  reject_rates |-> main_locals.reject_rates,
                  grade_fpr |-> main_locals.grade_fpr,
                  crop_confidence |-> main_locals.crop_conf]
    /\ quality_grading' =
           write_files(quality_grading,
                       {Str.bias_report_ \o strftime(now) \o Str.json}, now)
    /\ bias_pc' = "done"
    /\ UNCHANGED <<test_set, crop_result, flags, result_line, confidences, all_flags,
                   main_locals, programs_run, now, saved, latest>>

\* The samples of a crop: none, or MinCropSamples of them, all predicted right,
\* all predicted a wrong grade, or one right and the others predicted 'reject'.
ReportProfiles ==
    { [total |-> 0, correct |-> 0, rejected |-> 0],
      [total |-> MinCropSamples, correct |-> MinCropSamples, rejected |-> 0],
      [total |-> MinCropSamples, correct |-> 0, rejected |-> 0],
      [total |-> MinCropSamples, correct |-> 1, rejected |-> MinCropSamples - 1] }

\* The confidence of every sample of a crop.
ConfidenceLevels == {FLit(1, 2), FOfInt(1)}

\* main after get_predictions
InitReport ==
    /\ ServerOff /\ SplitOff /\ WeightsOff /\ PipeOff
    /\ bias_pc = "main"
    /\ \E ps \in [1..3 -> ReportProfiles], level \in [1..3 -> ConfidenceLevels] :
           /\ test_set = TestSetOf(ps)
           /\ confidences = [i \in 1..ps[1].total |-> level[1]]
                                \o [i \in 1..ps[2].total |-> level[2]]
                                \o [i \in 1..ps[3].total |-> level[3]]
    /\ crop_result = <<>>
    /\ flags = <<>>
    /\ result_line = ""
    /\ all_flags = <<>>
    /\ main_locals = [crop_acc |-> <<>>, reject_rates |-> <<>>, grade_fpr |-> <<>>,
                      crop_conf |-> <<>>]
    /\ report = <<>>

NextReport ==
    \/ main_crop_accuracy_parity
           /\ UNCHANGED <<serverVars, splitVars, weightVars, pipeVars>>
    \/ main_reject_rate_parity
           /\ UNCHANGED <<serverVars, splitVars, weightVars, pipeVars>>
    \/ main_false_positive_rate_parity
           /\ UNCHANGED <<serverVars, splitVars, weightVars, pipeVars>>
    \/ main_confidence_distribution
           /\ UNCHANGED <<serverVars, splitVars, weightVars, pipeVars>>
    \/ main_misclassification_patterns
           /\ UNCHANGED <<serverVars, splitVars, weightVars, pipeVars>>
    \/ generate_report
           /\ UNCHANGED <<serverVars, splitVars, weightVars, evalVars, prepVars>>

SpecReport == InitReport /\ [][NextReport]_vars

(***************************************************************************)
(* Claims about prepare_data.main                                          *)
(***************************************************************************)
\* The directories of a dataset that main has iterated over, as indices of handled.
HandledOf(dataset) == {i \in DOMAIN handled : handled[i].dir.dataset = dataset}

\* The images copy_images_with_split reported as copied for the crop directories
\* called `name` of the Vegetable Images dataset.
VegetableCopies(name) ==
    LET calls == {i \in HandledOf("Vegetable Images") : handled[i].dir.name = name}
    IN  SumOver([i \in calls |-> handled[i].count], calls)

\* C15 (as stated): process_vegetable_images_for_augmentation takes at most 200
\* images per crop from the Vegetable Images dataset, all into grade_a, and only
\* for the target crops Cabbage, Carrot, Potato, Tomato and Capsicum.
C15_AtMostLimitPerCrop ==
    main_pc = "done" =>
        \A i \in HandledOf("Vegetable Images") :
            handled[i].count > 0 =>
                /\ handled[i].grade = Name.grade_a
                /\ handled[i].dir.name \in {Label.Cabbage, Label.Carrot, Label.Potato,
                                            Label.Tomato, Label.Capsicum}
                /\ VegetableCopies(handled[i].dir.name) <= SAMPLE_LIMIT

\* C16 (as stated): whatever the class directory is called, images of the Visual
\* Dataset are placed only under premium or reject and images of the Spinach
\* dataset only under premium or grade_b; a class that is not mapped is skipped
\* and none of its images is copied.
C16_GradesPerDataset ==
    main_pc = "done" =>
        /\ \A i \in HandledOf("Visual_Dataset") :
               handled[i].grade \in {<<>>, Name.premium, Name.reject}
        /\ \A i \in HandledOf("Spinach") :
               handled[i].grade \in {<<>>, Name.premium, Name.grade_b}
        /\ \A i \in DOMAIN handled : handled[i].grade = <<>> => handled[i].count = 0

\* C17 (as stated): no two images copied during one run of main are written to
\* the same destination path: the total main reports, the sum of the counts
\* copy_images_with_split returned, is the number of files in the output
\* directory afterwards.
C17_TotalIsFileCount ==
    main_pc = "done" => main_total = Cardinality(out_files)

\* C19 (as stated): from the name '<crop>_<grade>_<split>_<index>.<ext>' of every
\* test file, evaluate.py and bias_test.py recover the crop name prepare_data
\* wrote into it: the crop of a copy made under that crop and grade.
C19_CropRoundTrip ==
    \A r \in evaluate_crops \cup bias_crops :
        \E i \in DOMAIN handled :
            /\ handled[i].count > 0
            /\ str_find(r.name, handled[i].crop \o <<Chr_underscore>> \o handled[i].grade
                                    \o <<Chr_underscore>>, 1) = 1
            /\ r.crop = handled[i].crop

\* The text of class_name after the prefix, <<>> when it does not start with it.
AfterPrefix(class_name, prefix) ==
    IF str_find(class_name, prefix, 1) = 1
    THEN SubSeq(class_name, Len(prefix) + 1, Len(class_name))
    ELSE <<>>

\* The crops the readers of the test split took from the files copied by call i.
CropsReadOf(i) ==
    { r.crop : r \in { q \in evaluate_crops \cup bias_crops :
                 str_find(q.name, handled[i].crop \o <<Chr_underscore>> \o handled[i].grade
                                      \o <<Chr_underscore>>, 1) = 1 } }

\* C23 (as stated): images of the same fruit from a Visual Dataset class
\* 'Fresh<Crop>' and from the class 'Rotten<Crop>' get the same crop prefix in
\* their output file names, the lower-cased crop name with 'Fresh' / 'Rotten'
\* removed, so the per-crop statistics of bias_test and evaluate count them as
\* one crop.
C23_FreshRottenOneCrop ==
    main_pc = "done" =>
        \A i, j \in HandledOf("Visual_Dataset") :
            /\ handled[i].count > 0 /\ handled[j].count > 0
            /\ AfterPrefix(handled[i].dir.name, Label.Fresh) # <<>>
            /\ AfterPrefix(handled[i].dir.name, Label.Fresh)
                   = AfterPrefix(handled[j].dir.name, Label.Rotten)
            => /\ handled[i].crop = LowerText(AfterPrefix(handled[i].dir.name, Label.Fresh))
               /\ handled[j].crop = handled[i].crop
               /\ Cardinality(CropsReadOf(i) \cup CropsReadOf(j)) <= 1

\* fp and fp + tn of the grade with index g, counted over the whole test set
FprCounts(g) ==
    LET others == {i \in DOMAIN test_set : test_set[i].true_class # g}
    IN  [fp |-> Cardinality({i \in others : test_set[i].pred_class = g}),
         n |-> Cardinality(others)]

\* FPR(g) - FPR(h) compared with 1/10 in exact arithmetic: the sign of
\* 10 * (fp_g * n_h - fp_h * n_g) - n_g * n_h, a grade without negatives taken as 0/1
GapOverTenth(g, h) ==
    LET frac(c) == IF c.n = 0 THEN [fp |-> 0, n |-> 1] ELSE c
        a == frac(FprCounts(g))
        b == frac(FprCounts(h))
    IN  10 * (a.fp * b.n - b.fp * a.n) - a.n * b.n

GradeIndices == 0..(Len(BiasClassNames) - 1)

\* C22 (as stated): test_false_positive_rate_parity computes for each grade
\* FPR = FP / (FP + TN) over all test samples (0 when FP + TN = 0) and returns
\* exactly one flag when the gap between the largest and the smallest grade FPR
\* exceeds 0.10, and no flag otherwise.
C22_FprGapFlag ==
    bias_pc = "returned" =>
        /\ DOMAIN crop_result = {BiasClassNames[g + 1] : g \in GradeIndices}
        /\ \A g \in GradeIndices :
               LET c == FprCounts(g)
               IN  crop_result[BiasClassNames[g + 1]] =
                       (IF c.n = 0 THEN FZero ELSE FDiv(FOfInt(c.fp), FOfInt(c.n)))
        /\ Len(flags) = (IF \E g, h \in GradeIndices : GapOverTenth(g, h) > 0 THEN 1 ELSE 0)

\* The patterns (crop, true grade, predicted grade) to flag: a wrong predicted
\* grade given to more than half of at least 5 samples of the crop and true grade;
\* crop_of[i] is the crop of sample i.
PatternsOver(crop_of) ==
    LET SamplesOf(c, t) ==
            {i \in DOMAIN test_set : crop_of[i] = c /\ test_set[i].true_class = t}
        Misclassified(c, t, p) == {i \in SamplesOf(c, t) : test_set[i].pred_class = p}
    IN  { <<c, BiasClassNames[w[1] + 1], BiasClassNames[w[2] + 1]>> :
            c \in {crop_of[i] : i \in DOMAIN crop_of},
            w \in { v \in GradeIndices \X GradeIndices : v[1] # v[2] } }
        \cap
        { k \in {crop_of[i] : i \in DOMAIN crop_of}
                  \X {BiasClassNames[g] : g \in DOMAIN BiasClassNames}
                  \X {BiasClassNames[g] : g \in DOMAIN BiasClassNames} :
            /\ Cardinality(SamplesOf(k[1], IndexOf(BiasClassNames, k[2]))) >= 5
            /\ 2 * Cardinality(Misclassified(k[1], IndexOf(BiasClassNames, k[2]),
                                             IndexOf(BiasClassNames, k[3])))
                   > Cardinality(SamplesOf(k[1], IndexOf(BiasClassNames, k[2]))) }

PatternsToFlag ==
    PatternsOver([i \in DOMAIN test_set |->
                     extract_crop_from_filename(test_set[i].file_path)] @@ <<>>)

PatternsFlagged == {<<flags[i].crop, flags[i].true_grade, flags[i].pred_grade>> : i \in DOMAIN flags}

\* C24 (as stated): test_misclassification_patterns flags every (crop, true grade,
\* predicted grade) pattern whose misclassification rate (count / samples of that
\* crop and true grade) exceeds 0.5 with at least 5 such samples, and flags no
\* other pattern; at most one predicted grade is flagged per (crop, true grade).
C24_PatternsFlagged ==
    bias_pc = "returned" =>
        /\ PatternsFlagged = PatternsToFlag
        /\ Len(flags) = Cardinality(PatternsFlagged)
        /\ \A k, l \in PatternsFlagged : k[1] = l[1] /\ k[2] = l[2] => k = l

\* The flags each of the five tests returns for the test set, in the order of main.
FlagsOfTests ==
    << test_crop_accuracy_parity(true_classes_of(test_set), pred_classes_of(test_set),
                                 file_paths_of(test_set), BiasClassNames)[2],
       test_reject_rate_parity(true_classes_of(test_set), pred_classes_of(test_set),
                               file_paths_of(test_set), BiasClassNames)[2],
       test_false_positive_rate_parity(true_classes_of(test_set), pred_classes_of(test_set),
                                       file_paths_of(test_set), BiasClassNames)[2],
       test_confidence_distribution(pred_classes_of(test_set), confidences,
                                    file_paths_of(test_set), BiasClassNames)[2],
       test_misclassification_patterns(true_classes_of(test_set), pred_classes_of(test_set),
                                       file_paths_of(test_set), BiasClassNames)[2] >>

ReportOfFlags(f) ==
    /\ report.flags = f[1] \o f[2] \o f[3] \o f[4] \o f[5]
    /\ report.total_flags = Len(report.flags)
    /\ report.pass = (\A k \in DOMAIN f : f[k] = <<>>)

\* C21: generate_report marks the report as pass exactly when no test produced a
\* flag; total_flags equals the length of the flag list, and that list is the flags
\* of tests 1 to 5 concatenated in that order with none dropped or duplicated.
C21_ReportOfAllFlags == bias_pc = "done" => ReportOfFlags(FlagsOfTests)

\* C21 witness: a report was generated from flags of each of the five tests.
C21_Witness ==
    /\ bias_pc = "done"
    /\ ~report.pass
    /\ {report.flags[i].kind : i \in DOMAIN report.flags}
           = {"accuracy below average", "4/5ths rule violation", "FPR gap",
              "confidence below average", "misclass rate"}

====
